---- MODULE Spec2Model ----
(***************************************************************************)
(* Overlay lifecycle and placement of the zudyog-ui component library.     *)
(*                                                                         *)
(* Every component is a React function component.  Its state is one record *)
(* variable whose fields keep the names of the props, useState cells and   *)
(* refs of the source.  React semantics used throughout:                   *)
(*   - an event handler or timer callback runs with the closure of the     *)
(*     render that created it: it reads the state of the last render and   *)
(*     queues its setState calls (field "pending...");                      *)
(*   - a render commits the queued state and the new props, updates the    *)
(*     refs of the elements it mounts or unmounts, and runs the effects    *)
(*     whose dependencies changed (cleanup first).  Render and effects are *)
(*     one step.                                                           *)
(* The variable "last" is a history variable: the last external event, the *)
(* handlers it invoked and the callbacks (onOpen, onClose, ...) it emitted.*)
(***************************************************************************)
EXTENDS Integers, FiniteSets, Sequences, TLC

VARIABLES
  win,        \* window.innerWidth / innerHeight
  body,       \* document.body.classList
  doc,        \* document.activeElement and whether the opener is attached
  popover,    \* the Popover instance
  select,     \* the Select instance
  dialogs,    \* the Dialog instances, by instance id
  autocomplete, \* the Autocomplete instance
  snackbar,   \* the Snackbar instance
  modal,      \* the Modal instance
  popper,     \* the Popper instance
  layout,     \* one placement computation: its inputs and its result
  clickAway,  \* the ClickAwayListener instance
  slider,     \* the Slider instance
  drawer,     \* the Drawer instance
  alert,      \* the Alert instance
  fade,       \* the Fade transition
  pagination, \* the Pagination instance
  tooltip,    \* the Tooltip instance
  last        \* history: the last event, the handlers it ran, what they emitted

vars ==
  <<win, body, doc, popover, select, dialogs, autocomplete, snackbar, modal, popper,
    layout, clickAway, slider, drawer, alert, fade, pagination, tooltip, last>>

None == "none"

(***************************************************************************)
(* DOM measurements                                                        *)
(***************************************************************************)
Rect(top, left, width, height) ==
  [top |-> top, left |-> left, width |-> width, height |-> height]

right(r) == r.left + r.width

bottom(r) == r.top + r.height

\* Window sizes the resize events draw from.
Viewports ==
  { [innerWidth |-> 80, innerHeight |-> 60],
    [innerWidth |-> 40, innerHeight |-> 36] }

\* Boxes of the trigger element; a scroll moves it from one to another.
TriggerRects == { Rect(4, 6, 10, 6), Rect(40, 50, 10, 6) }

\* Box of the popover content (size only is read).
ContentRect == Rect(0, 0, 20, 10)

\* The history record of one step.  The bit n alternates, so that the same
\* event delivered twice in a row is two distinct steps.
Note(op, target, called, emitted) ==
  [op |-> op, target |-> target, called |-> called, emitted |-> emitted,
   n |-> 1 - last.n]

(***************************************************************************)
(* Popover (src/src/components/Drawer/index.tsx, lines 381-659)            *)
(***************************************************************************)
PopoverPositions ==
  { "top", "top-start", "top-end", "right", "right-start", "right-end",
    "bottom", "bottom-start", "bottom-end", "left", "left-start", "left-end" }

\* Default of the offset prop.
PopoverOffset == 8

\* The switch of updatePosition: top/left before the viewport adjustment.
\* Widths and heights are even in every input set, so / 2 is exact.
PopoverRawPosition(position, t, c, offset) ==
  CASE position = "top" ->
         [top |-> t.top - c.height - offset,
          left |-> t.left + (t.width \div 2) - (c.width \div 2)]
    [] position = "top-start" ->
         [top |-> t.top - c.height - offset, left |-> t.left]
    [] position = "top-end" ->
         [top |-> t.top - c.height - offset, left |-> right(t) - c.width]
    [] position = "right" ->
         [top |-> t.top + (t.height \div 2) - (c.height \div 2),
          left |-> right(t) + offset]
    [] position = "right-start" ->
         [top |-> t.top, left |-> right(t) + offset]
    [] position = "right-end" ->
         [top |-> bottom(t) - c.height, left |-> right(t) + offset]
    [] position = "bottom" ->
         [top |-> bottom(t) + offset,
          left |-> t.left + (t.width \div 2) - (c.width \div 2)]
    [] position = "bottom-start" ->
         [top |-> bottom(t) + offset, left |-> t.left]
    [] position = "bottom-end" ->
         [top |-> bottom(t) + offset, left |-> right(t) - c.width]
    [] position = "left" ->
         [top |-> t.top + (t.height \div 2) - (c.height \div 2),
          left |-> t.left - c.width - offset]
    [] position = "left-start" ->
         [top |-> t.top, left |-> t.left - c.width - offset]
    [] position = "left-end" ->
         [top |-> bottom(t) - c.height, left |-> t.left - c.width - offset]
    [] OTHER ->
         [top |-> bottom(t) + offset,
          left |-> t.left + (t.width \div 2) - (c.width \div 2)]

\* Variant of PopoverAdjust that tests the far edge first.
PopoverAdjustTrailing(x, size, viewport) ==
  IF x + size > viewport - 10 THEN viewport - size - 10
  ELSE IF x < 10 THEN 10
  ELSE x

\* "Ensure the popover stays within viewport": one axis.
PopoverAdjust(x, size, viewport) ==
  IF x < 10 THEN 10
  ELSE IF x + size > viewport - 10 THEN viewport - size - 10
  ELSE x

\* The style.top / style.left that updatePosition writes.
PopoverComputed(position, t, c, offset, w) ==
  LET raw == PopoverRawPosition(position, t, c, offset)
  IN  [top |-> PopoverAdjust(raw.top, c.height, w.innerHeight),
       left |-> PopoverAdjust(raw.left, c.width, w.innerWidth)]

\* isOpen = controlled ? externalIsOpen : internalIsOpen
PopoverIsOpen(p) == IF p.controlled THEN p.externalIsOpen ELSE p.internalIsOpen

\* The dependency list of the listener effect.
PopoverDeps(p) ==
  <<PopoverIsOpen(p), p.position, p.closeOnClickOutside, p.closeOnEsc,
    p.closeOnScroll>>

\* An effect body that registers all four listeners whatever the props say.
PopoverRegisteredAll(p) ==
  IF PopoverIsOpen(p) THEN {"resize", "scroll", "mousedown", "keydown"} ELSE {}

\* The listeners the effect body registers.
PopoverRegistered(p) ==
  IF PopoverIsOpen(p)
  THEN {"resize"}
       \cup (IF p.closeOnScroll THEN {"scroll"} ELSE {})
       \cup (IF p.closeOnClickOutside THEN {"mousedown"} ELSE {})
       \cup (IF p.closeOnEsc THEN {"keydown"} ELSE {})
  ELSE {}

\* updatePosition: returns the record with the style written (a one-element
\* sequence; <<>> is "no style written"), or unchanged when a ref is null or
\* the closure's isOpen is false.
PopoverUpdatePosition(p, w) ==
  IF ~p.contentRef \/ ~PopoverIsOpen(p)
  THEN p
  ELSE [p EXCEPT !.style =
          <<PopoverComputed(p.position, p.triggerRect, ContentRect,
                            PopoverOffset, w)>>]

\* A cleanup that forgets the resize listener.
PopoverCleanupLeavesResize(p) ==
  [p EXCEPT !.listeners = @ \cap {"resize"}]

\* The cleanup the effect returns: all four removeEventListener calls.
PopoverCleanup(p) == [p EXCEPT !.listeners = {}]

\* The effect body.
PopoverEffect(p, w) ==
  IF PopoverIsOpen(p)
  THEN [PopoverUpdatePosition(p, w) EXCEPT !.listeners = PopoverRegistered(p)]
  ELSE p

\* One render of the component with the props in q: commits the queued
\* setInternalIsOpen, mounts or unmounts the content element, and re-runs
\* the effect when a dependency changed.
PopoverRender(q, w) ==
  LET s == [q EXCEPT
              !.internalIsOpen =
                 IF q.pendingIsOpen = <<>> THEN @ ELSE q.pendingIsOpen[1],
              !.pendingIsOpen = <<>>]
      m == [s EXCEPT !.contentRef = PopoverIsOpen(s),
                     !.style = IF PopoverIsOpen(s) THEN @ ELSE <<>>]
  IN  IF PopoverDeps(m) = m.deps
      THEN m
      ELSE [PopoverEffect(PopoverCleanup(m), w) EXCEPT !.deps = PopoverDeps(m)]

\* handleClose: what it queues and emits.
PopoverHandleClose(p) ==
  IF p.controlled THEN p ELSE [p EXCEPT !.pendingIsOpen = <<FALSE>>]

\* handleToggle: what it queues.
PopoverHandleToggle(p) ==
  IF p.controlled THEN p
  ELSE [p EXCEPT !.pendingIsOpen = <<~p.internalIsOpen>>]

\* handleToggle: what it emits.
PopoverToggleEmits(p) ==
  IF PopoverIsOpen(p) THEN {"onClose"} ELSE {"onOpen"}

PopoverProps ==
  [controlled : BOOLEAN, position : {"bottom", "top-start"},
   closeOnClickOutside : BOOLEAN, closeOnEsc : BOOLEAN,
   closeOnScroll : BOOLEAN]

\* The instance after its first render with props pr (isOpen starts false,
\* so the effect body registers nothing).
PopoverMounted(pr, t) ==
  LET p0 == [mounted |-> TRUE,
             controlled |-> pr.controlled,
             externalIsOpen |-> FALSE,
             internalIsOpen |-> FALSE,
             pendingIsOpen |-> <<>>,
             position |-> pr.position,
             closeOnClickOutside |-> pr.closeOnClickOutside,
             closeOnEsc |-> pr.closeOnEsc,
             closeOnScroll |-> pr.closeOnScroll,
             triggerRect |-> t,
             contentRef |-> FALSE,
             style |-> <<>>,
             listeners |-> {},
             deps |-> <<>>]
  IN  [p0 EXCEPT !.deps = PopoverDeps(p0)]

\* No Popover on the page.
PopoverIdle ==
  [PopoverMounted([controlled |-> FALSE, position |-> "bottom",
                   closeOnClickOutside |-> TRUE, closeOnEsc |-> TRUE,
                   closeOnScroll |-> FALSE], Rect(4, 6, 10, 6))
     EXCEPT !.mounted = FALSE]

PopoverInit ==
  \E pr \in PopoverProps, t \in TriggerRects : popover = PopoverMounted(pr, t)

OnlyPopover ==
  UNCHANGED <<tooltip, pagination, fade, alert, drawer, slider, clickAway, layout, doc, body, select, dialogs, autocomplete, snackbar, modal, popper>>

\* How a render changed isOpen: recorded as the target of the render step.
Change(was, is) ==
  IF was = is THEN "same" ELSE IF is THEN "opened" ELSE "closed"

\* A click on the trigger: onClick={handleToggle}.
PopoverClickTrigger ==
  /\ popover.mounted
  /\ popover' = PopoverHandleToggle(popover)
  /\ last' = Note("click", "trigger", {"handleToggle"},
                  PopoverToggleEmits(popover))
  /\ UNCHANGED win /\ OnlyPopover

\* A document mousedown: handleClickOutside when registered.
PopoverMouseDown(target) ==
  LET registered == "mousedown" \in popover.listeners
      outside == popover.contentRef /\ target = "outside"
  IN  /\ popover.mounted
      /\ popover' = IF registered /\ outside
                    THEN PopoverHandleClose(popover) ELSE popover
      /\ last' = Note("mousedown", target,
                      (IF registered THEN {"handleClickOutside"} ELSE {})
                        \cup (IF registered /\ outside
                              THEN {"handleClose"} ELSE {}),
                      IF registered /\ outside THEN {"onClose"} ELSE {})
      /\ UNCHANGED win /\ OnlyPopover

\* A document keydown: handleEscKey when registered.
PopoverKeyDown(key) ==
  LET registered == "keydown" \in popover.listeners
      esc == registered /\ key = "Escape"
  IN  /\ popover.mounted
      /\ popover' = IF esc THEN PopoverHandleClose(popover) ELSE popover
      /\ last' = Note("keydown", key,
                      (IF registered THEN {"handleEscKey"} ELSE {})
                        \cup (IF esc THEN {"handleClose"} ELSE {}),
                      IF esc THEN {"onClose"} ELSE {})
      /\ UNCHANGED win /\ OnlyPopover

\* A window scroll that moves the trigger to box t: handleClose when
\* registered (closeOnScroll); nothing else listens to scroll.
PopoverScroll(t) ==
  LET registered == "scroll" \in popover.listeners
      moved == [popover EXCEPT !.triggerRect = t]
  IN  /\ popover.mounted
      /\ t # popover.triggerRect
      /\ popover' = IF registered THEN PopoverHandleClose(moved) ELSE moved
      /\ last' = Note("scroll", "window",
                      IF registered THEN {"handleClose"} ELSE {},
                      IF registered THEN {"onClose"} ELSE {})
      /\ UNCHANGED win /\ OnlyPopover

\* A window resize to size w: updatePosition when registered.
PopoverResize(w) ==
  LET registered == "resize" \in popover.listeners
  IN  /\ popover.mounted
      /\ w # win
      /\ win' = w
      /\ popover' = IF registered
                    THEN PopoverUpdatePosition(popover, w) ELSE popover
      /\ last' = Note("resize", "window",
                      IF registered THEN {"updatePosition"} ELSE {}, {})
      /\ OnlyPopover

\* React re-renders after a queued state update.
PopoverRerender ==
  /\ popover.mounted
  /\ popover.pendingIsOpen # <<>>
  /\ popover' = PopoverRender(popover, win)
  /\ last' = Note("render", Change(PopoverIsOpen(popover),
                                   PopoverIsOpen(popover')), {}, {})
  /\ UNCHANGED win /\ OnlyPopover

\* The parent re-renders the Popover with one prop changed.
PopoverSetProps ==
  /\ popover.mounted
  /\ \E q \in { [popover EXCEPT !.externalIsOpen = ~@],
                [popover EXCEPT !.closeOnClickOutside = ~@],
                [popover EXCEPT !.closeOnEsc = ~@],
                [popover EXCEPT !.closeOnScroll = ~@],
                [popover EXCEPT !.position =
                   IF @ = "bottom" THEN "top-start" ELSE "bottom"] } :
       /\ (q.externalIsOpen # popover.externalIsOpen) => popover.controlled
       /\ popover' = PopoverRender(q, win)
  /\ last' = Note("render", Change(PopoverIsOpen(popover),
                                   PopoverIsOpen(popover')), {}, {})
  /\ UNCHANGED win /\ OnlyPopover

\* The parent unmounts the Popover: React runs the effect's cleanup.
PopoverUnmount ==
  /\ popover.mounted
  /\ popover' = [PopoverCleanup(popover) EXCEPT
                   !.mounted = FALSE, !.contentRef = FALSE, !.style = <<>>,
                   !.pendingIsOpen = <<>>]
  /\ last' = Note("unmount", "Popover", {}, {})
  /\ UNCHANGED win /\ OnlyPopover

PopoverNext ==
  \/ PopoverClickTrigger
  \/ \E target \in {"content", "trigger", "outside"} : PopoverMouseDown(target)
  \/ \E key \in {"Escape", "Tab"} : PopoverKeyDown(key)
  \/ \E t \in TriggerRects : PopoverScroll(t)
  \/ \E w \in Viewports : PopoverResize(w)
  \/ PopoverRerender
  \/ PopoverSetProps
  \/ PopoverUnmount

(***************************************************************************)
(* Select (src/src/components/Select/index.tsx), custom (non-native) mode  *)
(***************************************************************************)
\* setIsOpen calls queued since the last render, composed into one update:
\* "id" (none), "not" (prev => !prev), "true", "false".
ComposeUpdate(queued, u) ==
  CASE u = "not" -> (CASE queued = "id" -> "not"
                       [] queued = "not" -> "id"
                       [] queued = "true" -> "false"
                       [] queued = "false" -> "true")
    [] OTHER -> u

ApplyUpdate(isOpen, queued) ==
  CASE queued = "id" -> isOpen
    [] queued = "not" -> ~isOpen
    [] queued = "true" -> TRUE
    [] queued = "false" -> FALSE

SelectQueue(s, u) == [s EXCEPT !.pending = ComposeUpdate(@, u)]

\* First render: isOpen = false; the mount effect (deps []) registers the
\* window click handler.
SelectMounted(disabled, multiple) ==
  [mounted |-> TRUE, disabled |-> disabled, multiple |-> multiple,
   isOpen |-> FALSE, pending |-> "id", listeners |-> {"click"}]

SelectIdle ==
  [mounted |-> FALSE, disabled |-> FALSE, multiple |-> FALSE,
   isOpen |-> FALSE, pending |-> "id", listeners |-> {}]

SelectInit ==
  \E disabled \in BOOLEAN, multiple \in BOOLEAN :
    select = SelectMounted(disabled, multiple)

OnlySelect ==
  UNCHANGED <<tooltip, pagination, fade, alert, drawer, slider, clickAway, layout, doc, win, body, popover, dialogs, autocomplete, snackbar, modal,
              popper>>

\* The window click handler of the mount effect.
SelectWindowHandler(s, target) ==
  IF "click" \in s.listeners /\ target = "outside"
  THEN SelectQueue(s, "false") ELSE s

\* A click on the select box itself: onClick toggles unless disabled; the
\* native click then reaches the window handler (target inside).
SelectClickContainer ==
  /\ select.mounted
  /\ select' = SelectWindowHandler(
                 IF select.disabled THEN select ELSE SelectQueue(select, "not"),
                 "container")
  /\ last' = Note("click", "container", {"onClick", "handler"}, {})
  /\ OnlySelect

\* A click on an option of the shown list: stopPropagation, selectOption,
\* and setIsOpen(false) in single mode.
SelectClickOption ==
  /\ select.mounted /\ select.isOpen
  /\ select' = SelectWindowHandler(
                 IF select.multiple THEN select
                 ELSE SelectQueue(select, "false"),
                 "container")
  /\ last' = Note("click", "option", {"selectOption", "handler"},
                  {"onChange"})
  /\ OnlySelect

\* A click anywhere else in the window.
SelectClickOutside ==
  /\ select.mounted
  /\ select' = SelectWindowHandler(select, "outside")
  /\ last' = Note("click", "outside",
                  IF "click" \in select.listeners THEN {"handler"} ELSE {},
                  {})
  /\ OnlySelect

\* onBlur={() => setIsOpen(false)}
SelectBlur ==
  /\ select.mounted
  /\ select' = SelectQueue(select, "false")
  /\ last' = Note("blur", "container", {"onBlur"}, {})
  /\ OnlySelect

\* onKeyDown on the select box.
SelectKeyDown(code) ==
  /\ select.mounted
  /\ select' =
       IF select.disabled THEN select
       ELSE CASE code \in {"Enter", "Space"} -> SelectQueue(select, "not")
              [] code \in {"ArrowUp", "ArrowDown"} ->
                   IF ~select.isOpen THEN SelectQueue(select, "true")
                   ELSE select
              [] code = "Escape" -> SelectQueue(select, "false")
              [] OTHER -> select
  /\ last' = Note("keydown", code, {"onKeyDown"},
                  IF ~select.disabled /\ code \in {"Enter", "Space"}
                     /\ select.isOpen
                  THEN {"onChange"} ELSE {})
  /\ OnlySelect

\* React re-renders after the queued setIsOpen calls.
SelectRerender ==
  /\ select.mounted
  /\ select.pending # "id"
  /\ select' = [select EXCEPT !.isOpen = ApplyUpdate(@, select.pending),
                              !.pending = "id"]
  /\ last' = Note("render", Change(select.isOpen, select'.isOpen), {}, {})
  /\ OnlySelect

\* Unmount: the cleanup of the mount effect removes the window handler.
SelectUnmount ==
  /\ select.mounted
  /\ select' = [select EXCEPT !.mounted = FALSE, !.listeners = {},
                              !.isOpen = FALSE, !.pending = "id"]
  /\ last' = Note("unmount", "Select", {}, {})
  /\ OnlySelect

SelectNext ==
  \/ SelectClickContainer
  \/ SelectClickOption
  \/ SelectClickOutside
  \/ SelectBlur
  \/ \E code \in {"Enter", "ArrowDown", "Escape", "Tab"} : SelectKeyDown(code)
  \/ SelectRerender
  \/ SelectUnmount

(***************************************************************************)
(* Dialog (src/src/components/Dialog/index.tsx, lines 1-155)               *)
(***************************************************************************)
Dialogs == {"d1", "d2"}

\* styles.bodyLock
BodyLock == "bodyLock"

DialogIdle ==
  [mounted |-> FALSE, isOpen |-> FALSE, disableBodyScroll |-> TRUE,
   closeOnBackdropClick |-> TRUE, listeners |-> {}]

DialogProps ==
  [isOpen : BOOLEAN, disableBodyScroll : BOOLEAN,
   closeOnBackdropClick : BOOLEAN]

\* The body of the scroll-lock effect, run with the props pr.
DialogLockEffect(classList, pr) ==
  IF pr.disableBodyScroll
  THEN IF pr.isOpen THEN classList \cup {BodyLock} ELSE classList \ {BodyLock}
  ELSE classList

\* The cleanup of the scroll-lock effect, with the props of the render that
\* created it.
DialogLockCleanup(classList, old) ==
  IF old.disableBodyScroll THEN classList \ {BodyLock} ELSE classList

\* document.body.classList after a render that takes the instance from old
\* to pr: the scroll-lock effect re-runs when [isOpen, disableBodyScroll]
\* changed.
DialogRenderBody(classList, old, pr) ==
  IF <<old.isOpen, old.disableBodyScroll>> = <<pr.isOpen, pr.disableBodyScroll>>
  THEN classList
  ELSE DialogLockEffect(DialogLockCleanup(classList, old), pr)

OnlyDialogs ==
  UNCHANGED <<tooltip, pagination, fade, alert, drawer, slider, clickAway, layout, doc, win, popover, select, autocomplete, snackbar, modal, popper>>

\* The parent mounts Dialog d: first render, every effect body runs.  The
\* Escape effect registers its keydown handler whatever isOpen is.
DialogMount(d) ==
  /\ ~dialogs[d].mounted
  /\ \E pr \in DialogProps :
       /\ dialogs' = [dialogs EXCEPT ![d] =
                        [mounted |-> TRUE, isOpen |-> pr.isOpen,
                         disableBodyScroll |-> pr.disableBodyScroll,
                         closeOnBackdropClick |-> pr.closeOnBackdropClick,
                         listeners |-> {"keydown"}]]
       /\ body' = DialogLockEffect(body, pr)
  /\ last' = Note("mount", d, {d}, {})
  /\ OnlyDialogs

\* The parent re-renders Dialog d with one prop changed.  The Escape effect
\* (deps [isOpen, onClose]) removes its handler and registers the new one.
DialogSetProps(d) ==
  /\ dialogs[d].mounted
  /\ \E q \in { [dialogs[d] EXCEPT !.isOpen = ~@],
                [dialogs[d] EXCEPT !.disableBodyScroll = ~@],
                [dialogs[d] EXCEPT !.closeOnBackdropClick = ~@] } :
       /\ dialogs' = [dialogs EXCEPT ![d] = [q EXCEPT !.listeners = {"keydown"}]]
       /\ body' = DialogRenderBody(body, dialogs[d], q)
       /\ last' = Note("render", Change(dialogs[d].isOpen, q.isOpen), {d}, {})
  /\ OnlyDialogs

\* The parent unmounts Dialog d: the cleanups of its effects run.
DialogUnmount(d) ==
  /\ dialogs[d].mounted
  /\ dialogs' = [dialogs EXCEPT ![d] = DialogIdle]
  /\ body' = DialogLockCleanup(body, dialogs[d])
  /\ last' = Note("unmount", d, {d}, {})
  /\ OnlyDialogs

\* The callbacks handleEscKey of instance d emits for a keydown.
DialogEscEmits(d, key) ==
  IF "keydown" \in dialogs[d].listeners /\ dialogs[d].isOpen /\ key = "Escape"
  THEN {d} ELSE {}

\* A document keydown: it reaches the handleEscKey of every mounted Dialog.
DialogKeyDown(key) ==
  /\ \E d \in Dialogs : dialogs[d].mounted
  /\ last' = Note("keydown", key,
                  {d \in Dialogs : "keydown" \in dialogs[d].listeners},
                  UNION {DialogEscEmits(d, key) : d \in Dialogs})
  /\ UNCHANGED <<dialogs, body>>
  /\ OnlyDialogs

\* A click on the backdrop of the open Dialog d (handleBackdropClick), or,
\* with target "close", on its close button (onClick={onClose}).
DialogClick(d, target) ==
  /\ dialogs[d].mounted /\ dialogs[d].isOpen
  /\ last' = Note("click", target,
                  IF target = "backdrop" THEN {d} ELSE {},
                  IF target = "close" \/ dialogs[d].closeOnBackdropClick
                  THEN {d} ELSE {})
  /\ UNCHANGED <<dialogs, body>>
  /\ OnlyDialogs

DialogNextOf(ids) ==
  \/ \E d \in ids : DialogMount(d)
  \/ \E d \in ids : DialogSetProps(d)
  \/ \E d \in ids : DialogUnmount(d)
  \/ \E key \in {"Escape", "Tab"} : DialogKeyDown(key)
  \/ \E d \in ids, target \in {"backdrop", "close"} : DialogClick(d, target)

(***************************************************************************)
(* Autocomplete (src/src/components/FloatingActionButton/index.tsx,        *)
(* lines 120-442).  Strings are sequences of characters.                   *)
(***************************************************************************)
\* The options prop.
AutocompleteOptions ==
  << [id |-> 1, label |-> <<"b">>], [id |-> 2, label |-> <<"B", "b">>] >>

\* What the user types into the input.
TypedValues == { <<>>, <<"b">>, <<"x">> }

\* Default of the minSearchLength prop.
MinSearchLength == 1

\* Most options the multiple selection holds in the model.
MaxSelected == 2

\* Most events and timer callbacks React lets run between two renders.
MaxBatch == 2

\* Most blur timers pending at once: the input loses the focus again only
\* after the earlier 200 ms timers have expired.
MaxBlurTimers == 1

LowerChar(c) == IF c = "B" THEN "b" ELSE c

\* String.prototype.toLowerCase
ToLowerCase(str) == [i \in 1..Len(str) |-> LowerChar(str[i])]

\* String.prototype.includes
Includes(str, sub) ==
  \E i \in 1..(Len(str) - Len(sub) + 1) :
    SubSeq(str, i, i + Len(sub) - 1) = sub

\* selectedOptions.some(selected => selected.id === id)
SomeSelected(selected, id) == \E j \in 1..Len(selected) : selected[j].id = id

\* The default filter of the debounce callback.
AutocompleteFilter(inputValue, selected) ==
  LET Keep(option) ==
        /\ Includes(ToLowerCase(option.label), ToLowerCase(inputValue))
        /\ ~SomeSelected(selected, option.id)
  IN  SelectSeq(AutocompleteOptions, Keep)

\* The useState cells of the first render (isFocused, which only picks a
\* class name of the wrapper, is left out).
AutocompleteCells ==
  [inputValue |-> <<>>, filteredOptions |-> <<>>, selectedOptions |-> <<>>,
   isOpen |-> FALSE, highlightedIndex |-> -1]

\* The instance after mount.  cur: the state of the last render (what the
\* closures of handlers and timers read).  next: cur with the setState
\* calls queued since applied in order.  batch: the number of events and
\* timer callbacks that ran since the last render.  selSet: setSelectedOptions was
\* called since the last render (it always makes a new array).  hasFocus:
\* the input element has the DOM focus.  requested (history): the user has
\* typed or the input has taken the focus since isOpen was last set to
\* false.  debounce: the debounce timer is
\* pending.  blurTimers: the pending 200 ms blur timers.
AutocompleteMounted(multiple) ==
  [mounted |-> TRUE, multiple |-> multiple,
   cur |-> AutocompleteCells, next |-> AutocompleteCells, batch |-> 0,
   selSet |-> FALSE,
   dropdownRef |-> FALSE, hasFocus |-> FALSE, requested |-> FALSE,
   debounce |-> TRUE, blurTimers |-> {}]

AutocompleteIdle ==
  [AutocompleteMounted(FALSE) EXCEPT !.mounted = FALSE, !.debounce = FALSE]

AutocompleteInit ==
  \E multiple \in BOOLEAN : autocomplete = AutocompleteMounted(multiple)

OnlyAutocomplete ==
  UNCHANGED <<tooltip, pagination, fade, alert, drawer, slider, clickAway, layout, doc, win, body, popover, select, dialogs, snackbar, modal, popper>>

\* handleInputFocus
HandleInputFocus(a) ==
  [a EXCEPT !.next.isOpen =
               IF Len(a.cur.inputValue) >= MinSearchLength THEN TRUE ELSE @]

\* inputRef.current?.focus(): the focus event runs handleInputFocus when the
\* input did not have the focus.
FocusInput(a) ==
  IF a.hasFocus THEN a ELSE [HandleInputFocus(a) EXCEPT !.hasFocus = TRUE]

\* options.find(option => option.label.toLowerCase() === ...) finds one.
MatchingOption(inputValue) ==
  \E i \in 1..Len(AutocompleteOptions) :
    ToLowerCase(AutocompleteOptions[i].label) = ToLowerCase(inputValue)

\* handleInputBlur: a 200 ms timer whose callback closes over multiple,
\* inputValue and selectedOptions.  A timer is kept as the text its callback
\* will pass to setInputValue; a callback that calls nothing (multiple mode,
\* or the text matches an option label) is not kept.
HandleInputBlur(a) ==
  LET c == a.cur
      text == IF Len(c.selectedOptions) = 0 THEN <<>>
              ELSE c.selectedOptions[1].label
  IN  [a EXCEPT !.hasFocus = FALSE,
                !.blurTimers =
                   IF a.multiple \/ MatchingOption(c.inputValue) THEN @
                   ELSE @ \cup {text}]

\* handleOptionSelect
HandleOptionSelect(a, option) ==
  FocusInput(
    IF a.multiple
    THEN [a EXCEPT !.next.selectedOptions = Append(@, option),
                   !.next.inputValue = <<>>,
                   !.selSet = TRUE]
    ELSE [a EXCEPT !.next.selectedOptions = <<option>>,
                   !.next.inputValue = option.label,
                   !.next.isOpen = FALSE,
                   !.selSet = TRUE])

\* handleRemoveOption
HandleRemoveOption(a, optionId) ==
  LET Keep(option) == option.id # optionId
  IN  [a EXCEPT !.next.selectedOptions = SelectSeq(@, Keep), !.selSet = TRUE]

\* The body of the debounce timer callback.
DebounceCallback(a) ==
  LET c == a.cur
      b == [a EXCEPT !.debounce = FALSE, !.next.highlightedIndex = -1]
  IN  IF Len(c.inputValue) >= MinSearchLength
      THEN [b EXCEPT
              !.next.filteredOptions =
                 AutocompleteFilter(c.inputValue, c.selectedOptions),
              !.next.isOpen =
                 IF ~c.isOpen /\ Len(c.inputValue) > 0 THEN TRUE ELSE @]
      ELSE [b EXCEPT
              !.next.filteredOptions = <<>>,
              !.next.isOpen =
                 IF c.isOpen /\ Len(c.inputValue) = 0 THEN FALSE ELSE @]

\* The document mousedown handler of the mount effect.
AutocompleteClickOutside(a, target) ==
  IF a.dropdownRef /\ target = "outside"
  THEN [a EXCEPT !.next.isOpen = FALSE] ELSE a

\* handleKeyDown, for a key pressed in the input.
HandleKeyDown(a, key) ==
  LET c == a.cur
  IN  CASE key = "ArrowDown" ->
             [a EXCEPT !.next.highlightedIndex =
                IF @ < Len(c.filteredOptions) - 1 THEN @ + 1 ELSE @]
        [] key = "ArrowUp" ->
             [a EXCEPT !.next.highlightedIndex = IF @ > 0 THEN @ - 1 ELSE @]
        [] key = "Enter" /\ c.highlightedIndex >= 0 ->
             HandleOptionSelect(a, c.filteredOptions[c.highlightedIndex + 1])
        [] key = "Escape" ->
             [a EXCEPT !.next.isOpen = FALSE]
        [] key = "Backspace" /\ c.inputValue = <<>> /\ a.multiple
             /\ Len(c.selectedOptions) > 0 ->
             HandleRemoveOption(
               a, c.selectedOptions[Len(c.selectedOptions)].id)
        [] OTHER -> a

\* One more event or timer callback in the current batch; a is the instance
\* after its handler ran.
Batched(a) ==
  [a EXCEPT !.batch = @ + 1,
            !.requested =
               IF a.hasFocus /\ ~autocomplete.hasFocus THEN TRUE
               ELSE IF autocomplete.next.isOpen /\ ~a.next.isOpen THEN FALSE
               ELSE @]

\* The component is mounted and React has not re-rendered yet.
AutocompleteReady == autocomplete.mounted /\ autocomplete.batch < MaxBatch

\* The user types: handleInputChange.
AutocompleteInputChange(v) ==
  /\ AutocompleteReady /\ autocomplete.hasFocus
  /\ v # autocomplete.cur.inputValue
  /\ autocomplete' =
       [Batched([autocomplete EXCEPT !.next.inputValue = v])
          EXCEPT !.requested = TRUE]
  /\ last' = Note("change", "input", {"handleInputChange"}, {})
  /\ OnlyAutocomplete

\* A mousedown: the document handler runs, then the focus moves (into the
\* input, or away from it).
AutocompleteMouseDown(target) ==
  LET a == AutocompleteClickOutside(autocomplete, target)
  IN  /\ AutocompleteReady
      /\ target = "dropdown" => autocomplete.dropdownRef
      /\ (target # "input" /\ autocomplete.hasFocus) =>
           Cardinality(autocomplete.blurTimers) < MaxBlurTimers
      /\ autocomplete' =
           Batched(IF target = "input" THEN FocusInput(a)
                   ELSE IF a.hasFocus THEN HandleInputBlur(a) ELSE a)
      /\ last' = Note("mousedown", target, {"handleClickOutside"}, {})
      /\ OnlyAutocomplete

\* A click on the i-th option of the rendered dropdown.
AutocompleteClickOption(i) ==
  /\ AutocompleteReady /\ autocomplete.dropdownRef
  /\ i \in 1..Len(autocomplete.cur.filteredOptions)
  /\ Len(autocomplete.next.selectedOptions) < MaxSelected
  /\ autocomplete' =
       Batched(HandleOptionSelect(autocomplete,
                                  autocomplete.cur.filteredOptions[i]))
  /\ last' = Note("click", "option", {"handleOptionSelect"}, {})
  /\ OnlyAutocomplete

\* A key pressed in the focused input.
AutocompleteKeyDown(key) ==
  /\ AutocompleteReady /\ autocomplete.hasFocus
  /\ key = "Enter" =>
       /\ Len(autocomplete.next.selectedOptions) < MaxSelected
       /\ autocomplete.cur.highlightedIndex
            < Len(autocomplete.cur.filteredOptions)
  /\ autocomplete' = Batched(HandleKeyDown(autocomplete, key))
  /\ last' = Note("keydown", key, {"handleKeyDown"}, {})
  /\ OnlyAutocomplete

\* A click on the remove button of a selected option (multiple mode).
AutocompleteRemove(optionId) ==
  /\ AutocompleteReady /\ autocomplete.multiple
  /\ SomeSelected(autocomplete.cur.selectedOptions, optionId)
  /\ autocomplete' = Batched(HandleRemoveOption(autocomplete, optionId))
  /\ last' = Note("click", "remove", {"handleRemoveOption"}, {})
  /\ OnlyAutocomplete

\* The debounce timer expires.
AutocompleteDebounceFires ==
  /\ AutocompleteReady /\ autocomplete.debounce
  /\ autocomplete' = Batched(DebounceCallback(autocomplete))
  /\ last' = Note("timer", "debounce", {}, {})
  /\ OnlyAutocomplete

\* A blur timer expires: its callback resets the input text.
AutocompleteBlurFires(text) ==
  /\ AutocompleteReady /\ text \in autocomplete.blurTimers
  /\ autocomplete' = Batched([autocomplete EXCEPT !.blurTimers = @ \ {text},
                                                  !.next.inputValue = text])
  /\ last' = Note("timer", "blur", {}, {})
  /\ OnlyAutocomplete

\* React re-renders: commits the queued state, mounts the dropdown element
\* when isOpen && filteredOptions.length > 0, runs the onChange effect when
\* selectedOptions is a new array, and restarts the debounce timer when one
\* of inputValue, selectedOptions, isOpen changed.
AutocompleteRerender ==
  LET a == autocomplete
      n == a.next
      restart == \/ n.inputValue # a.cur.inputValue
                 \/ n.isOpen # a.cur.isOpen
                 \/ a.selSet
  IN  /\ a.mounted
      /\ a.batch > 0
      /\ autocomplete' =
           [a EXCEPT !.cur = n,
                     !.batch = 0,
                     !.selSet = FALSE,
                     !.dropdownRef = n.isOpen /\ Len(n.filteredOptions) > 0,
                     !.debounce = IF restart THEN TRUE ELSE @]
      /\ last' = Note("render", Change(a.cur.isOpen, n.isOpen), {},
                      IF a.selSet THEN {"onChange"} ELSE {})
      /\ OnlyAutocomplete

AutocompleteNext ==
  \/ \E v \in TypedValues : AutocompleteInputChange(v)
  \/ \E target \in {"input", "dropdown", "outside"} :
       AutocompleteMouseDown(target)
  \/ \E i \in 1..Len(AutocompleteOptions) : AutocompleteClickOption(i)
  \/ \E key \in {"ArrowDown", "ArrowUp", "Enter", "Escape", "Backspace"} :
       AutocompleteKeyDown(key)
  \/ \E i \in 1..Len(AutocompleteOptions) :
       AutocompleteRemove(AutocompleteOptions[i].id)
  \/ AutocompleteDebounceFires
  \/ \E text \in autocomplete.blurTimers : AutocompleteBlurFires(text)
  \/ AutocompleteRerender

(***************************************************************************)
(* Snackbar (src/src/components/Snackbar/index.tsx)                        *)
(***************************************************************************)
\* Most 300 ms onClose timers pending at once (they are never cleared).
MaxCloseTimers == 2

\* The lifecycle phase after a step, from the phase before it and the open
\* prop and isVisible cell after it.  Not visible with open = true is the
\* entering snackbar before setIsVisible(true) is committed, or the exiting
\* one after the auto-hide timer.
SnackbarPhase(was, open, isVisible) ==
  CASE open /\ isVisible -> "Open"
    [] ~open /\ isVisible -> "Closing"
    [] ~open /\ ~isVisible -> "Closed"
    [] OTHER -> IF was \in {"Open", "Closing"} THEN "Closing" ELSE "Opening"

\* setIsVisible(v): queued unless v is the committed value.
SnackbarSetIsVisible(s, v) ==
  [s EXCEPT !.pendingIsVisible = IF v = s.isVisible THEN <<>> ELSE <<v>>]

\* The dependency list of the effect.
SnackbarDeps(s) == <<s.open, s.autoHideDuration, s.onClose>>

\* The effect: its cleanup clears the auto-hide timer, its body shows the
\* snackbar and starts the timer, or hides it.
SnackbarEffect(s) ==
  IF s.open
  THEN [SnackbarSetIsVisible(s, TRUE) EXCEPT
          !.timer = (s.autoHideDuration # <<>>)]
  ELSE [SnackbarSetIsVisible(s, FALSE) EXCEPT !.timer = FALSE]

\* One render with the props in q: commits the queued isVisible and runs the
\* effect when a dependency changed.
SnackbarRender(q) ==
  LET c == [q EXCEPT
              !.isVisible =
                 IF q.pendingIsVisible = <<>> THEN @ ELSE q.pendingIsVisible[1],
              !.pendingIsVisible = <<>>]
      e == IF SnackbarDeps(c) = c.deps THEN c
           ELSE [SnackbarEffect(c) EXCEPT !.deps = SnackbarDeps(c)]
  IN  [e EXCEPT !.phase = SnackbarPhase(q.phase, e.open, e.isVisible)]

\* autoHideDuration: <<>> is null, <<5000>> the default.  onClose: the
\* identity of the callback the parent passes.  closeTimers: the pending
\* setTimeout(onClose, 300) calls.  phase: history, see SnackbarPhase.
SnackbarMounted(open, autoHideDuration) ==
  LET s0 == [mounted |-> TRUE, open |-> open,
             autoHideDuration |-> autoHideDuration, onClose |-> 1,
             isVisible |-> FALSE, pendingIsVisible |-> <<>>,
             timer |-> FALSE, closeTimers |-> 0,
             deps |-> <<>>, phase |-> "Closed"]
  IN  SnackbarRender(s0)

SnackbarIdle ==
  [SnackbarMounted(FALSE, <<5000>>) EXCEPT !.mounted = FALSE]

SnackbarInit ==
  \E open \in BOOLEAN, autoHideDuration \in {<<>>, <<5000>>} :
    snackbar = SnackbarMounted(open, autoHideDuration)

OnlySnackbar ==
  UNCHANGED <<tooltip, pagination, fade, alert, drawer, slider, clickAway, layout, doc, win, body, popover, select, dialogs, autocomplete, modal, popper>>

\* The parent re-renders the Snackbar with one prop changed.
SnackbarSetProps ==
  /\ snackbar.mounted
  /\ \E q \in { [snackbar EXCEPT !.open = ~@],
                [snackbar EXCEPT !.onClose = 3 - @],
                [snackbar EXCEPT !.autoHideDuration =
                   IF @ = <<>> THEN <<5000>> ELSE <<>>] } :
       snackbar' = SnackbarRender(q)
  /\ last' = Note("render", Change(snackbar.isVisible, snackbar'.isVisible),
                  {}, {})
  /\ OnlySnackbar

\* React re-renders after a queued setIsVisible.
SnackbarRerender ==
  /\ snackbar.mounted /\ snackbar.pendingIsVisible # <<>>
  /\ snackbar' = SnackbarRender(snackbar)
  /\ last' = Note("render", Change(snackbar.isVisible, snackbar'.isVisible),
                  {}, {})
  /\ OnlySnackbar

\* The auto-hide timer expires: setIsVisible(false), setTimeout(onClose, 300).
SnackbarTimerFires ==
  /\ snackbar.mounted /\ snackbar.timer
  /\ snackbar.closeTimers < MaxCloseTimers
  /\ snackbar' = [SnackbarSetIsVisible(snackbar, FALSE) EXCEPT
                    !.timer = FALSE, !.closeTimers = @ + 1]
  /\ last' = Note("timer", "autoHide", {}, {})
  /\ OnlySnackbar

\* A 300 ms timer expires and calls onClose, mounted or not.
SnackbarCloseTimerFires ==
  /\ snackbar.closeTimers > 0
  /\ snackbar' = [snackbar EXCEPT !.closeTimers = @ - 1]
  /\ last' = Note("timer", "onClose", {}, {"onClose"})
  /\ OnlySnackbar

\* A click on the close button of the rendered snackbar: onClick={onClose}.
SnackbarClickClose ==
  /\ snackbar.mounted /\ (snackbar.open \/ snackbar.isVisible)
  /\ last' = Note("click", "close", {}, {"onClose"})
  /\ UNCHANGED snackbar
  /\ OnlySnackbar

\* Unmount: the effect's cleanup clears the auto-hide timer only.
SnackbarUnmount ==
  /\ snackbar.mounted
  /\ snackbar' = [SnackbarIdle EXCEPT !.closeTimers = snackbar.closeTimers]
  /\ last' = Note("unmount", "Snackbar", {}, {})
  /\ OnlySnackbar

SnackbarNext ==
  \/ SnackbarSetProps
  \/ SnackbarRerender
  \/ SnackbarTimerFires
  \/ SnackbarCloseTimerFires
  \/ SnackbarClickClose
  \/ SnackbarUnmount

(***************************************************************************)
(* Modal (src/unnamed/part_001)                                            *)
(***************************************************************************)
\* The class the Modal puts on document.body.
OverflowHidden == "overflow-hidden"

ModalProps == [isOpen : BOOLEAN, closeOnEsc : BOOLEAN,
               closeOnBackdropClick : BOOLEAN]

\* The focus / body scroll effect (deps [isOpen]); it has no cleanup.
ModalScrollEffect(classList, isOpen) ==
  IF isOpen THEN classList \cup {OverflowHidden}
  ELSE classList \ {OverflowHidden}

\* HTMLElement.focus(): the element takes the focus when it is in the
\* document and focusable (the opener button while attached, the panel of a
\* rendered overlay); on document.body or on a detached element the call
\* changes nothing.
Focus(d, el) ==
  IF el = "modal" \/ (el = "button" /\ d.button)
  THEN [d EXCEPT !.activeElement = el] ELSE d

\* The element el leaves the document: the focus it held falls to the body.
Removed(d, el) ==
  IF d.activeElement = el THEN [d EXCEPT !.activeElement = "body"] ELSE d

\* The panel (modalRef) is in the document: the component returns null
\* while !mounted || !isOpen.
ModalShown(m) == m.inTree /\ m.mounted /\ m.isOpen

\* The focus effect (deps [isOpen]), run after the render that made the
\* Modal m, on the document d: the ref previousActiveElement afterwards.
ModalSnapshot(m, d) ==
  IF m.isOpen THEN <<d.activeElement>> ELSE m.previousActiveElement

\* Variant of ModalFocusEffect that gives no focus back on close.
ModalFocusEffectNoRestore(m, d) ==
  IF m.isOpen /\ ModalShown(m) THEN Focus(d, "modal") ELSE d

\* The same effect: the document afterwards.  Open: the panel is focused
\* when it is rendered.  Closed: focus() is called on the snapshot whenever
\* there is one, also on the first mount and whatever has become of the
\* element.
ModalFocusEffect(m, d) ==
  IF m.isOpen
  THEN (IF ModalShown(m) THEN Focus(d, "modal") ELSE d)
  ELSE (IF m.previousActiveElement # <<>>
        THEN Focus(d, m.previousActiveElement[1]) ELSE d)

\* inTree: the component is mounted by its parent.  mounted: the useState
\* cell of the source.  The keydown effect registers handleKeyDown on every
\* run, whatever isOpen and closeOnEsc are.  previousActiveElement: the ref
\* of that name, <<>> for null.
ModalMounted(pr) ==
  [inTree |-> TRUE, mounted |-> FALSE, pendingMounted |-> TRUE,
   isOpen |-> pr.isOpen, closeOnEsc |-> pr.closeOnEsc,
   closeOnBackdropClick |-> pr.closeOnBackdropClick,
   listeners |-> {"keydown"}, previousActiveElement |-> <<>>]

ModalIdle ==
  [ModalMounted([isOpen |-> FALSE, closeOnEsc |-> TRUE,
                 closeOnBackdropClick |-> TRUE])
     EXCEPT !.inTree = FALSE, !.pendingMounted = FALSE, !.listeners = {}]

OnlyModal ==
  UNCHANGED <<tooltip, pagination, fade, alert, drawer, slider, clickAway, layout, win, popover, select, dialogs, autocomplete, snackbar, popper>>

\* The parent mounts the Modal: first render (null), then every effect body.
ModalMount ==
  /\ ~modal.inTree
  /\ \E pr \in ModalProps :
       /\ modal' = [ModalMounted(pr) EXCEPT !.previousActiveElement =
                                      ModalSnapshot(ModalMounted(pr), doc)]
       /\ body' = ModalScrollEffect(body, pr.isOpen)
       /\ doc' = ModalFocusEffect(ModalMounted(pr), doc)
  /\ last' = Note("mount", "Modal", {}, {})
  /\ OnlyModal

\* React re-renders after setMounted(true).
ModalRerender ==
  /\ modal.inTree /\ modal.pendingMounted
  /\ modal' = [modal EXCEPT !.mounted = TRUE, !.pendingMounted = FALSE]
  /\ last' = Note("render", "same", {}, {})
  /\ UNCHANGED <<body, doc>>
  /\ OnlyModal

\* The parent re-renders the Modal with one prop changed.
ModalSetProps ==
  /\ modal.inTree
  /\ \E q \in { [modal EXCEPT !.isOpen = ~@],
                [modal EXCEPT !.closeOnEsc = ~@],
                [modal EXCEPT !.closeOnBackdropClick = ~@] } :
       /\ LET m == [q EXCEPT !.mounted = @ \/ q.pendingMounted,
                             !.pendingMounted = FALSE]
              d == IF ModalShown(m) THEN doc ELSE Removed(doc, "modal")
          IN  IF q.isOpen = modal.isOpen
              THEN modal' = m /\ body' = body /\ doc' = d
              ELSE /\ modal' = [m EXCEPT !.previousActiveElement =
                                           ModalSnapshot(m, d)]
                   /\ body' = ModalScrollEffect(body, q.isOpen)
                   /\ doc' = ModalFocusEffect(m, d)
       /\ last' = Note("render", Change(modal.isOpen, q.isOpen), {}, {})
  /\ OnlyModal

\* Unmount: the keydown effect's cleanup runs; the focus effect has none,
\* so the body class stays and the focus is not given back.
ModalUnmount ==
  /\ modal.inTree
  /\ modal' = ModalIdle
  /\ doc' = Removed(doc, "modal")
  /\ last' = Note("unmount", "Modal", {}, {})
  /\ UNCHANGED body
  /\ OnlyModal

\* A document keydown: handleKeyDown.
ModalKeyDown(key) ==
  /\ modal.inTree
  /\ last' = Note("keydown", key,
                  IF "keydown" \in modal.listeners THEN {"handleKeyDown"}
                  ELSE {},
                  IF /\ "keydown" \in modal.listeners /\ modal.isOpen
                     /\ modal.closeOnEsc /\ key = "Escape"
                  THEN {"onClose"} ELSE {})
  /\ UNCHANGED <<modal, body, doc>>
  /\ OnlyModal

\* A click on the backdrop of the rendered Modal: handleBackdropClick.
ModalBackdropClick ==
  /\ modal.inTree /\ modal.mounted /\ modal.isOpen
  /\ last' = Note("click", "backdrop", {"handleBackdropClick"},
                  IF modal.closeOnBackdropClick THEN {"onClose"} ELSE {})
  /\ UNCHANGED <<modal, body, doc>>
  /\ OnlyModal

\* The user moves the focus: to the opener button while it is attached, or
\* away from every control (a click on the page).
DocFocus(el) ==
  /\ el = "button" => doc.button
  /\ doc.activeElement # el
  /\ doc' = [doc EXCEPT !.activeElement = el]
  /\ last' = Note("focus", el, {}, {})
  /\ UNCHANGED <<modal, body>>
  /\ OnlyModal

\* The parent removes the opener button from the document.
DocDetachButton ==
  /\ doc.button
  /\ doc' = Removed([doc EXCEPT !.button = FALSE], "button")
  /\ last' = Note("detach", "button", {}, {})
  /\ UNCHANGED <<modal, body>>
  /\ OnlyModal

ModalNext ==
  \/ ModalMount
  \/ ModalRerender
  \/ ModalSetProps
  \/ ModalUnmount
  \/ \E key \in {"Escape", "Tab"} : ModalKeyDown(key)
  \/ ModalBackdropClick

(***************************************************************************)
(* Popper (src/src/components/Popper/index.tsx), with the default offset   *)
(* and modifiers props                                                     *)
(***************************************************************************)
\* Default of the offset prop: [offsetX, offsetY].
PopperOffsetX == 0

PopperOffsetY == 8

\* window.scrollY values the scroll events draw from.
ScrollYs == {0, 4}

\* Box of the reference element in page coordinates.
ReferencePage == Rect(40, 50, 10, 6)

\* referenceElement.getBoundingClientRect(): all zero for an element that is
\* not in the document.
PopperRefRect(p) ==
  IF p.attached
  THEN [ReferencePage EXCEPT !.top = @ - p.scrollY]
  ELSE Rect(0, 0, 0, 0)

\* Variant of PopperComputed that takes the default branch of the switch for
\* every placement.
PopperComputedDefault(placement, r, c, scrollY) ==
  [top |-> bottom(r) + PopperOffsetY + scrollY, left |-> r.left + PopperOffsetX]

\* The switch of updatePosition, then "Apply scroll position" (scrollX is 0).
PopperComputed(placement, r, c, scrollY) ==
  LET ox == PopperOffsetX
      oy == PopperOffsetY
      centerX == r.left + ((r.width - c.width) \div 2)
      centerY == r.top + ((r.height - c.height) \div 2)
      raw ==
        CASE placement = "top" ->
               [top |-> r.top - c.height - oy, left |-> centerX + ox]
          [] placement = "top-start" ->
               [top |-> r.top - c.height - oy, left |-> r.left + ox]
          [] placement = "top-end" ->
               [top |-> r.top - c.height - oy,
                left |-> right(r) - c.width + ox]
          [] placement = "bottom" ->
               [top |-> bottom(r) + oy, left |-> centerX + ox]
          [] placement = "bottom-start" ->
               [top |-> bottom(r) + oy, left |-> r.left + ox]
          [] placement = "bottom-end" ->
               [top |-> bottom(r) + oy, left |-> right(r) - c.width + ox]
          [] placement = "left" ->
               [top |-> centerY + oy, left |-> r.left - c.width - ox]
          [] placement = "left-start" ->
               [top |-> r.top + oy, left |-> r.left - c.width - ox]
          [] placement = "left-end" ->
               [top |-> bottom(r) - c.height + oy,
                left |-> r.left - c.width - ox]
          [] placement = "right" ->
               [top |-> centerY + oy, left |-> right(r) + ox]
          [] placement = "right-start" ->
               [top |-> r.top + oy, left |-> right(r) + ox]
          [] placement = "right-end" ->
               [top |-> bottom(r) - c.height + oy, left |-> right(r) + ox]
          [] OTHER ->
               [top |-> bottom(r) + oy, left |-> r.left + ox]
  IN  [top |-> raw.top + scrollY, left |-> raw.left]

\* updatePosition of the effect run that registered it (referenceElement and
\* popperElement were non-null then): queues setPopperStyles.
PopperUpdatePosition(p) ==
  [p EXCEPT !.pendingStyles =
     <<PopperComputed(p.placement, PopperRefRect(p), ContentRect, p.scrollY)>>]

\* The position effect: offset and modifiers are new arrays on every render,
\* so it re-runs (cleanup first) after every render.
PopperPositionEffect(p) ==
  LET c == [p EXCEPT !.listeners = @ \ {"resize", "scroll"}]
  IN  IF p.referenceElement = <<>> \/ ~p.popperElement \/ ~p.isOpen THEN c
      ELSE [PopperUpdatePosition(c) EXCEPT
              !.listeners = @ \cup {"resize", "scroll"}]

\* The click-outside effect.
PopperClickEffect(p) ==
  [p EXCEPT !.listeners =
     IF p.isOpen /\ p.onClickOutside THEN @ \cup {"mousedown"}
     ELSE @ \ {"mousedown"}]

\* One render with the props in q: commits the queued state, runs the ref
\* callback (setPopperElement) and the effects.
PopperRender(q) ==
  LET c == [q EXCEPT
              !.popperElement =
                 IF q.pendingElement = <<>> THEN @ ELSE q.pendingElement[1],
              !.popperStyles =
                 IF q.pendingStyles = <<>> THEN @ ELSE q.pendingStyles,
              !.pendingStyles = <<>>]
      r == [c EXCEPT !.pendingElement =
              IF c.isOpen = c.popperElement THEN <<>> ELSE <<c.isOpen>>]
  IN  PopperClickEffect(PopperPositionEffect(r))

PopperMounted(isOpen, onClickOutside) ==
  PopperRender(
    [mounted |-> TRUE, isOpen |-> isOpen, onClickOutside |-> onClickOutside,
     referenceElement |-> <<"anchor">>, attached |-> TRUE,
     placement |-> "bottom", scrollY |-> 0,
     popperElement |-> FALSE, pendingElement |-> <<>>,
     popperStyles |-> <<>>, pendingStyles |-> <<>>, listeners |-> {}])

PopperIdle ==
  [PopperMounted(FALSE, FALSE) EXCEPT !.mounted = FALSE]

PopperInit ==
  \E isOpen \in BOOLEAN, onClickOutside \in BOOLEAN :
    popper = PopperMounted(isOpen, onClickOutside)

OnlyPopper ==
  UNCHANGED <<tooltip, pagination, fade, alert, drawer, slider, clickAway, layout, doc, body, popover, select, dialogs, autocomplete, snackbar, modal>>

\* The parent re-renders the Popper with one prop changed.
PopperSetProps ==
  /\ popper.mounted
  /\ \E q \in { [popper EXCEPT !.isOpen = ~@],
                [popper EXCEPT !.placement =
                   IF @ = "bottom" THEN "left-end" ELSE "bottom"],
                [popper EXCEPT !.referenceElement =
                   IF @ = <<>> THEN <<"anchor">> ELSE <<>>] } :
       /\ popper' = PopperRender(q)
       /\ last' = Note("render", Change(popper.isOpen, q.isOpen), {}, {})
  /\ UNCHANGED win /\ OnlyPopper

\* React re-renders after a queued setPopperElement or setPopperStyles.
PopperRerender ==
  /\ popper.mounted
  /\ popper.pendingElement # <<>> \/ popper.pendingStyles # <<>>
  /\ popper' = PopperRender(popper)
  /\ last' = Note("render", "same", {}, {})
  /\ UNCHANGED win /\ OnlyPopper

\* The reference element is removed from the document; the parent still
\* passes it as referenceElement.
PopperDetachReference ==
  /\ popper.mounted /\ popper.attached
  /\ popper' = [popper EXCEPT !.attached = FALSE]
  /\ last' = Note("detach", "reference", {}, {})
  /\ UNCHANGED win /\ OnlyPopper

\* A window resize to size w: updatePosition when registered.
PopperResize(w) ==
  LET registered == "resize" \in popper.listeners
  IN  /\ popper.mounted
      /\ w # win
      /\ win' = w
      /\ popper' = IF registered THEN PopperUpdatePosition(popper) ELSE popper
      /\ last' = Note("resize", "window",
                      IF registered THEN {"updatePosition"} ELSE {}, {})
      /\ OnlyPopper

\* A window scroll to scrollY = y: updatePosition when registered.
PopperScroll(y) ==
  LET registered == "scroll" \in popper.listeners
      scrolled == [popper EXCEPT !.scrollY = y]
  IN  /\ popper.mounted
      /\ y # popper.scrollY
      /\ popper' = IF registered THEN PopperUpdatePosition(scrolled)
                   ELSE scrolled
      /\ last' = Note("scroll", "window",
                      IF registered THEN {"updatePosition"} ELSE {}, {})
      /\ UNCHANGED win /\ OnlyPopper

\* A document mousedown: handleClickOutside when registered.
PopperMouseDown(target) ==
  LET registered == "mousedown" \in popper.listeners
  IN  /\ popper.mounted
      /\ last' = Note("mousedown", target,
                      IF registered THEN {"handleClickOutside"} ELSE {},
                      IF /\ registered /\ target = "outside"
                         /\ popper.referenceElement # <<>>
                      THEN {"onClickOutside"} ELSE {})
      /\ UNCHANGED <<win, popper>> /\ OnlyPopper

\* Unmount: the cleanups of both effects run.
PopperUnmount ==
  /\ popper.mounted
  /\ popper' = [PopperIdle EXCEPT !.scrollY = popper.scrollY]
  /\ last' = Note("unmount", "Popper", {}, {})
  /\ UNCHANGED win /\ OnlyPopper

PopperNext ==
  \/ PopperSetProps
  \/ PopperRerender
  \/ PopperDetachReference
  \/ \E w \in Viewports : PopperResize(w)
  \/ \E y \in ScrollYs : PopperScroll(y)
  \/ \E target \in {"popper", "reference", "outside"} : PopperMouseDown(target)
  \/ PopperUnmount

(***************************************************************************)
(* The position computations, on their own                                 *)
(* (Popover.updatePosition, Popper.updatePosition, Menu position effect)   *)
(***************************************************************************)
\* getBoundingClientRect() of the anchor, in a window of 800 x 600.
LayoutAnchors ==
  { Rect(100, 100, 50, 20), Rect(580, 100, 50, 20), Rect(590, 100, 50, 20),
    Rect(100, 676, 50, 20), Rect(100, 700, 50, 20), Rect(100, 8, 50, 20) }

\* Size of the content: ordinary, tall, and wider than the window.
LayoutContents ==
  { Rect(0, 0, 120, 40), Rect(0, 0, 120, 100), Rect(0, 0, 900, 40) }

\* The values of the position / placement prop: the twelve of the type, and
\* one a caller without type checking can pass.
LayoutPlacements == PopoverPositions \cup {"center"}

LayoutWindow == [innerWidth |-> 800, innerHeight |-> 600]

\* The preventOverflow modifier of the Popper (boundary 'viewport'), applied
\* to the position pos of the switch: four tests in the order of the source.
PopperPreventOverflow(pos, c, w) ==
  LET l1 == IF pos.left + c.width > w.innerWidth
            THEN w.innerWidth - c.width - 8 ELSE pos.left
      t1 == IF pos.top + c.height > w.innerHeight
            THEN w.innerHeight - c.height - 8 ELSE pos.top
  IN  [top |-> IF t1 < 8 THEN 8 ELSE t1, left |-> IF l1 < 8 THEN 8 ELSE l1]

\* The position the Menu effect sets: anchorVertical, anchorOrigin, the
\* anchor's rect, the width and maxHeight props, the window.
MenuComputed(anchorVertical, anchorOrigin, rect, width, maxHeight, w) ==
  LET top0 == IF anchorVertical = "bottom" THEN bottom(rect) ELSE rect.top
      left0 == IF anchorOrigin = "center"
               THEN rect.left + (rect.width \div 2) - (width \div 2)
               ELSE IF anchorOrigin = "right" THEN right(rect) - width
               ELSE rect.left
      top1 == IF top0 + maxHeight > w.innerHeight
              THEN rect.top - maxHeight ELSE top0
      left1 == IF left0 + width > w.innerWidth
               THEN w.innerWidth - width - 10 ELSE left0
  IN  [top |-> top1, left |-> IF left1 < 0 THEN 10 ELSE left1]

\* by: the component that computed pos (None: not computed yet); pos: the
\* top / left it wrote, <<>> while there is none.
LayoutIdle ==
  [anchor |-> Rect(0, 0, 0, 0), content |-> Rect(0, 0, 0, 0),
   placement |-> "bottom", by |-> None, pos |-> <<>>]

OnlyLayout ==
  UNCHANGED <<tooltip, pagination, fade, alert, drawer, slider, clickAway, win, body, doc, popover, select, dialogs, autocomplete,
              snackbar, modal, popper>>

\* Popover.updatePosition with the default offset.
LayoutPopover ==
  /\ layout.by = None
  /\ layout' = [layout EXCEPT !.by = "Popover",
                  !.pos = <<PopoverComputed(layout.placement, layout.anchor,
                                            layout.content, PopoverOffset,
                                            win)>>]
  /\ last' = Note("updatePosition", "Popover", {}, {})
  /\ OnlyLayout

\* Popper.updatePosition with the default offset, in a window that is not
\* scrolled; preventOverflow: the modifiers prop holds that modifier.
LayoutPopper(preventOverflow) ==
  /\ layout.by = None
  /\ LET pos == PopperComputed(layout.placement, layout.anchor,
                               layout.content, 0)
     IN  layout' = [layout EXCEPT
                      !.by = IF preventOverflow THEN "PopperPreventOverflow"
                             ELSE "Popper",
                      !.pos = IF preventOverflow
                              THEN <<PopperPreventOverflow(pos,
                                                           layout.content,
                                                           win)>>
                              ELSE <<pos>>]
  /\ last' = Note("updatePosition", "Popper", {}, {})
  /\ OnlyLayout

\* The Menu effect, for the placements its two props can express; the
\* content's size stands for the width and maxHeight props.
LayoutMenu ==
  /\ layout.by = None
  /\ \E v \in {"top", "bottom"}, h \in {"left", "center", "right"} :
       /\ layout.placement =
            (CASE h = "left" -> v \o "-start" [] h = "right" -> v \o "-end"
               [] OTHER -> v)
       /\ layout' = [layout EXCEPT !.by = "Menu",
                       !.pos = <<MenuComputed(v, h, layout.anchor,
                                              layout.content.width,
                                              layout.content.height, win)>>]
  /\ last' = Note("effect", "Menu", {}, {})
  /\ OnlyLayout

LayoutNext ==
  \/ LayoutPopover
  \/ \E preventOverflow \in BOOLEAN : LayoutPopper(preventOverflow)
  \/ LayoutMenu

(***************************************************************************)
(* ClickAwayListener (src/unnamed/part_002)                                *)
(***************************************************************************)
\* Most handleClickAway closures on the document at once.
MaxHandlers == 3

\* handlers: the handleClickAway closures of this instance that are
\* registered on the document for an event type.  leaked: those of
\* unmounted instances, whose rootRef.current is null.  calls: the
\* onClickAway calls the last document event made.
ClickAwayIdle ==
  [mounted |-> FALSE, disabled |-> FALSE, handlers |-> 0, leaked |-> 0,
   calls |-> 0]

\* One run of the effect with the prop disabled: nothing when disabled,
\* otherwise a new closure is registered.  The cleanup of the run before
\* walks registeredEvents, which is always empty, and removes nothing.
ClickAwayEffect(c, disabled) ==
  [c EXCEPT !.mounted = TRUE, !.disabled = disabled, !.calls = 0,
            !.handlers = IF disabled THEN @ ELSE @ + 1]

OnlyClickAway ==
  UNCHANGED <<tooltip, pagination, fade, alert, drawer, slider, win, body, doc, popover, select, dialogs, autocomplete,
              snackbar, modal, popper, layout>>

\* Room on the document for the closure an effect run may register.
ClickAwayRoom == clickAway.handlers + clickAway.leaked < MaxHandlers

ClickAwayMount ==
  /\ ~clickAway.mounted /\ ClickAwayRoom
  /\ \E disabled \in BOOLEAN :
       clickAway' = ClickAwayEffect(clickAway, disabled)
  /\ last' = Note("mount", "ClickAwayListener", {}, {})
  /\ OnlyClickAway

\* The parent re-renders with the events prop left out (its default is a
\* new array on every render) and disabled as given: the effect re-runs.
ClickAwayRender ==
  /\ clickAway.mounted /\ ClickAwayRoom
  /\ \E disabled \in BOOLEAN :
       /\ clickAway' = ClickAwayEffect(clickAway, disabled)
       /\ last' = Note("render",
                       IF disabled = clickAway.disabled THEN "same"
                       ELSE IF disabled THEN "disabled" ELSE "enabled",
                       {}, {})
  /\ OnlyClickAway

\* Unmount: the cleanup removes nothing; React sets rootRef.current to null.
ClickAwayUnmount ==
  /\ clickAway.mounted
  /\ clickAway' = [ClickAwayIdle EXCEPT
                     !.leaked = clickAway.leaked + clickAway.handlers]
  /\ last' = Note("unmount", "ClickAwayListener", {}, {})
  /\ OnlyClickAway

\* A mousedown on the document: every registered handleClickAway runs; one
\* whose rootRef.current is set and does not contain the target calls
\* onClickAway.
ClickAwayMouseDown(target) ==
  /\ clickAway' = [clickAway EXCEPT
                     !.calls = IF target = "outside" THEN clickAway.handlers
                               ELSE 0]
  /\ last' = Note("mousedown", target,
                  IF clickAway.handlers + clickAway.leaked > 0
                  THEN {"handleClickAway"} ELSE {},
                  IF target = "outside" /\ clickAway.handlers > 0
                  THEN {"onClickAway"} ELSE {})
  /\ OnlyClickAway

ClickAwayNext ==
  \/ ClickAwayMount
  \/ ClickAwayRender
  \/ ClickAwayUnmount
  \/ \E target \in {"inside", "outside"} : ClickAwayMouseDown(target)

(***************************************************************************)
(* Slider (src/unnamed/part_000, second file)                              *)
(***************************************************************************)
\* Defaults of the min, max and step props.
SliderMin == 0
SliderMax == 100
SliderStep == 1

\* trackRef.current.getBoundingClientRect(), and the clientX values of the
\* pointer: left of the track, on it (two of them between steps), right of it.
SliderTrack == Rect(0, 10, 200, 4)
PointerXs == {-50, 10, 35, 111, 160, 210, 400}

\* Most drags whose document listeners are registered at once.
MaxDrags == 2

\* Math.round(num / den) for den > 0: halves go up.
Round(num, den) == (2 * num + den) \div (2 * den)

\* getValueFromPercentage(n / d)
GetValueFromPercentage(n, d) ==
  LET stepped == Round(SliderMin * 100 * d + n * (SliderMax - SliderMin),
                       100 * d * SliderStep) * SliderStep
      atLeast == IF stepped < SliderMin THEN SliderMin ELSE stepped
  IN  IF atLeast > SliderMax THEN SliderMax ELSE atLeast

\* Variant of SliderDragged that leaves out Math.min / Math.max.
SliderDraggedUnordered(thumbType, internalValue, clientX) ==
  LET n == (clientX - SliderTrack.left) * 100
      newValue == GetValueFromPercentage(
                    IF n < 0 THEN 0
                    ELSE IF n > 100 * SliderTrack.width
                         THEN 100 * SliderTrack.width ELSE n,
                    SliderTrack.width)
  IN  IF Len(internalValue) = 2
      THEN (IF thumbType = "min" THEN <<newValue, internalValue[2]>>
            ELSE <<internalValue[1], newValue>>)
      ELSE <<newValue>>

\* handleDrag of the drag started on thumbType when the rendered value was
\* internalValue: the value it sets and passes to onChange for a mousemove
\* at clientX.  A number is a sequence of one, a pair a sequence of two.
SliderDragged(thumbType, internalValue, clientX) ==
  LET n == (clientX - SliderTrack.left) * 100
      newValue == GetValueFromPercentage(
                    IF n < 0 THEN 0
                    ELSE IF n > 100 * SliderTrack.width
                         THEN 100 * SliderTrack.width ELSE n,
                    SliderTrack.width)
      minVal == internalValue[1]
      maxVal == internalValue[2]
  IN  IF Len(internalValue) = 2
      THEN (IF thumbType = "min"
            THEN <<IF newValue < maxVal THEN newValue ELSE maxVal, maxVal>>
            ELSE <<minVal, IF newValue > minVal THEN newValue ELSE minVal>>)
      ELSE <<newValue>>

\* An uncontrolled Slider.  internalValue, activeDragThumb: the state of the
\* last render; pending: the values queued by setInternalValue and
\* setActiveDragThumb (<<>>: none).  drags: the handleDrag / handleDragEnd
\* pairs registered on the document, in order, each with the thumb and the
\* internalValue its closure holds.  notified: the last argument of onChange.
SliderIdle ==
  [mounted |-> FALSE, range |-> FALSE, disabled |-> FALSE,
   internalValue |-> <<0>>, activeDragThumb |-> None,
   pending |-> [internalValue |-> <<>>, activeDragThumb |-> <<>>],
   drags |-> <<>>, notified |-> <<>>]

OnlySlider ==
  UNCHANGED <<tooltip, pagination, fade, alert, drawer, win, body, doc, popover, select, dialogs, autocomplete,
              snackbar, modal, popper, layout, clickAway>>

\* First render with the range, disabled and defaultValue props.
SliderMount ==
  /\ ~slider.mounted /\ slider.drags = <<>>
  /\ \E range \in BOOLEAN, disabled \in BOOLEAN,
        defaultValue \in {<<0>>, <<0, 100>>, <<13, 75>>} :
       /\ range = (Len(defaultValue) = 2)
       /\ slider' = [SliderIdle EXCEPT !.mounted = TRUE, !.range = range,
                       !.disabled = disabled, !.internalValue = defaultValue]
  /\ last' = Note("mount", "Slider", {}, {})
  /\ OnlySlider

\* React re-renders with the queued state.
SliderRender ==
  /\ slider.mounted
  /\ slider.pending # SliderIdle.pending
  /\ slider' = [slider EXCEPT
       !.internalValue = IF slider.pending.internalValue = <<>> THEN @
                         ELSE slider.pending.internalValue[1],
       !.activeDragThumb = IF slider.pending.activeDragThumb = <<>> THEN @
                           ELSE slider.pending.activeDragThumb[1],
       !.pending = SliderIdle.pending]
  /\ last' = Note("render", "same", {}, {})
  /\ OnlySlider

\* handleTrackClick: in range mode updatedValue is computed and dropped.
SliderTrackClick(clientX) ==
  /\ slider.mounted
  /\ LET newValue == GetValueFromPercentage(
                       (clientX - SliderTrack.left) * 100, SliderTrack.width)
         commits == /\ ~slider.disabled
                    /\ ~(slider.range /\ Len(slider.internalValue) = 2)
     IN  /\ slider' = IF commits
                      THEN [slider EXCEPT
                              !.pending.internalValue = <<(<<newValue>>)>>,
                              !.notified = <<(<<newValue>>)>>]
                      ELSE slider
         /\ last' = Note("click", "track", {"handleTrackClick"},
                         IF commits THEN {"onChange"} ELSE {})
  /\ OnlySlider

\* handleThumbDragStart(thumbType): a mousedown on a thumb.
SliderThumbMouseDown(thumbType) ==
  /\ slider.mounted /\ Len(slider.drags) < MaxDrags
  /\ thumbType = "max" => (slider.range /\ Len(slider.internalValue) = 2)
  /\ slider' = IF slider.disabled THEN slider
               ELSE [slider EXCEPT
                       !.pending.activeDragThumb = <<thumbType>>,
                       !.drags = Append(@, [thumbType |-> thumbType,
                                            internalValue |->
                                              slider.internalValue])]
  /\ last' = Note("mousedown", thumbType, {"handleThumbDragStart"},
                  IF slider.disabled THEN {} ELSE {"onDragStart"})
  /\ OnlySlider

\* A document mousemove: every registered handleDrag runs, in order; the
\* last setInternalValue and onChange are the ones that remain.
SliderMouseMove(clientX) ==
  /\ slider.drags # <<>>
  /\ LET d == slider.drags[Len(slider.drags)]
         updatedValue == SliderDragged(d.thumbType, d.internalValue, clientX)
     IN  slider' = IF slider.mounted
                   THEN [slider EXCEPT
                           !.pending.internalValue = <<updatedValue>>,
                           !.notified = <<updatedValue>>]
                   ELSE slider
  /\ last' = Note("mousemove", "document", {"handleDrag"},
                  IF slider.mounted THEN {"onChange"} ELSE {})
  /\ OnlySlider

\* A document mouseup: every registered handleDragEnd runs and removes its
\* two listeners.
SliderMouseUp ==
  /\ slider.drags # <<>>
  /\ slider' = [slider EXCEPT !.drags = <<>>,
                              !.pending.activeDragThumb = <<None>>]
  /\ last' = Note("mouseup", "document", {"handleDragEnd"}, {"onDragEnd"})
  /\ OnlySlider

SliderNext ==
  \/ SliderMount
  \/ SliderRender
  \/ \E clientX \in PointerXs : SliderTrackClick(clientX)
  \/ \E thumbType \in {"min", "max"} : SliderThumbMouseDown(thumbType)
  \/ \E clientX \in PointerXs : SliderMouseMove(clientX)
  \/ SliderMouseUp

(***************************************************************************)
(* Drawer (src/src/components/Drawer/index.tsx)                            *)
(***************************************************************************)
DrawerVariants == {"temporary", "persistent", "permanent"}

\* Variant of DrawerRegistered that registers for every open Drawer.
DrawerRegisteredWhenOpen(variant, open) ==
  IF open THEN {"mousedown", "keydown"} ELSE {}

\* The document listeners after the effect (deps [variant, open, onClose])
\* has run: its cleanup removes both, its body adds both for an open
\* temporary Drawer only.
DrawerRegistered(variant, open) ==
  IF variant # "temporary" \/ ~open THEN {} ELSE {"mousedown", "keydown"}

\* getPositionStyles: the size of the panel for the anchor prop, with the
\* default width and height.
DrawerPositionStyles(anchor) ==
  IF anchor \in {"left", "right"}
  THEN [width |-> "300px", height |-> "100%"]
  ELSE [width |-> "100%", height |-> "300px"]

\* style: the style of the rendered panel, <<>> while there is none.
DrawerIdle ==
  [mounted |-> FALSE, open |-> FALSE, variant |-> "temporary",
   listeners |-> {}, style |-> <<>>]

OnlyDrawer ==
  UNCHANGED <<tooltip, pagination, fade, alert, win, body, doc, popover, select, dialogs, autocomplete,
              snackbar, modal, popper, layout, clickAway, slider>>

\* What the render puts in the document besides the children: the backdrop
\* of an open temporary Drawer, the close button of a persistent one.  The
\* panel itself is rendered for every variant, open or not.
DrawerControls(d) ==
  (IF d.variant = "temporary" /\ d.open THEN {"backdrop"} ELSE {})
    \cup (IF d.variant = "persistent" THEN {"closeButton"} ELSE {})

\* The parent mounts the Drawer, or re-renders it with the props variant,
\* open and anchor: render, then the effect.
DrawerRender(variant, open, anchor) ==
  /\ drawer' = [mounted |-> TRUE, open |-> open, variant |-> variant,
                listeners |-> DrawerRegistered(variant, open),
                style |-> <<DrawerPositionStyles(anchor)>>]
  /\ last' = Note(IF drawer.mounted THEN "render" ELSE "mount",
                  IF drawer.mounted THEN Change(drawer.open, open)
                  ELSE "Drawer", {}, {})
  /\ OnlyDrawer

DrawerUnmount ==
  /\ drawer.mounted
  /\ drawer' = DrawerIdle
  /\ last' = Note("unmount", "Drawer", {}, {})
  /\ OnlyDrawer

\* A document mousedown (handleClickOutside) or keydown (handleEscapeKey).
DrawerDocumentEvent(type, target) ==
  /\ drawer.mounted
  /\ last' = Note(type, target,
                  IF type \in drawer.listeners
                  THEN {IF type = "mousedown" THEN "handleClickOutside"
                        ELSE "handleEscapeKey"}
                  ELSE {},
                  IF type \in drawer.listeners
                     /\ target \in {"outside", "Escape"}
                  THEN {"onClose"} ELSE {})
  /\ UNCHANGED drawer
  /\ OnlyDrawer

\* A click on the backdrop or on the close button: onClick={onClose}.
DrawerClick(target) ==
  /\ drawer.mounted /\ target \in DrawerControls(drawer)
  /\ last' = Note("click", target, {}, {"onClose"})
  /\ UNCHANGED drawer
  /\ OnlyDrawer

DrawerNext ==
  \/ \E variant \in DrawerVariants, open \in BOOLEAN,
          anchor \in {"left", "right", "top", "bottom"} :
       DrawerRender(variant, open, anchor)
  \/ DrawerUnmount
  \/ \E target \in {"inside", "outside"} :
       DrawerDocumentEvent("mousedown", target)
  \/ \E key \in {"Escape", "Tab"} : DrawerDocumentEvent("keydown", key)
  \/ \E target \in {"backdrop", "closeButton"} : DrawerClick(target)

(***************************************************************************)
(* Alert (src/src/components/Drawer/index.tsx, second file)                *)
(***************************************************************************)
\* Most onClose calls of one Alert instance that are counted.
MaxCloses == 2

\* Values of the autoHideDuration prop: the default (no timer) and two
\* durations.
AlertDurations == {0, 3000, 5000}

\* visible: the state of the last render; pendingVisible: the queued
\* setVisible (<<>>: none).  autoHideDuration: 0 is the default (no timer).
\* timer: the auto-hide timeout is pending.  closes: the onClose calls of
\* this instance so far.
AlertIdle ==
  [mounted |-> FALSE, visible |-> TRUE, pendingVisible |-> <<>>,
   dismissible |-> TRUE, autoHideDuration |-> 0, timer |-> FALSE,
   closes |-> 0]

OnlyAlert ==
  UNCHANGED <<tooltip, pagination, fade, win, body, doc, popover, select, dialogs, autocomplete,
              snackbar, modal, popper, layout, clickAway, slider, drawer>>

\* handleClose: setVisible(false), then onClose.
AlertHandleClose(a) ==
  [a EXCEPT !.pendingVisible = IF a.visible THEN <<FALSE>> ELSE <<>>,
            !.closes = @ + 1]

\* First render with the props dismissible and autoHideDuration; the effect
\* starts the timer when autoHideDuration > 0.
AlertMount ==
  /\ ~alert.mounted
  /\ \E dismissible \in BOOLEAN, autoHideDuration \in AlertDurations :
       alert' = [AlertIdle EXCEPT !.mounted = TRUE,
                                  !.dismissible = dismissible,
                                  !.autoHideDuration = autoHideDuration,
                                  !.timer = (autoHideDuration > 0)]
  /\ last' = Note("mount", "Alert", {}, {})
  /\ OnlyAlert

\* The parent changes autoHideDuration: the cleanup clears the timer, the
\* effect starts a new one; the queued setVisible is committed.
AlertSetProps ==
  /\ alert.mounted
  /\ \E autoHideDuration \in AlertDurations \ {alert.autoHideDuration} :
       alert' = [alert EXCEPT
         !.autoHideDuration = autoHideDuration,
         !.timer = (autoHideDuration > 0),
         !.visible = IF alert.pendingVisible = <<>> THEN @
                     ELSE alert.pendingVisible[1],
         !.pendingVisible = <<>>]
  /\ last' = Note("render", Change(alert.visible, alert'.visible), {}, {})
  /\ OnlyAlert

\* React re-renders after setVisible(false); the timer is left alone.
AlertRerender ==
  /\ alert.mounted /\ alert.pendingVisible # <<>>
  /\ alert' = [alert EXCEPT !.visible = alert.pendingVisible[1],
                            !.pendingVisible = <<>>]
  /\ last' = Note("render", Change(alert.visible, alert'.visible), {}, {})
  /\ OnlyAlert

\* A click on the close button of the rendered Alert: handleClose.
AlertClickClose ==
  /\ alert.mounted /\ alert.visible /\ alert.dismissible
  /\ alert.closes < MaxCloses
  /\ alert' = AlertHandleClose(alert)
  /\ last' = Note("click", "close", {"handleClose"}, {"onClose"})
  /\ OnlyAlert

\* The auto-hide timer expires: handleClose.
AlertTimerFires ==
  /\ alert.mounted /\ alert.timer
  /\ alert.closes < MaxCloses
  /\ alert' = [AlertHandleClose(alert) EXCEPT !.timer = FALSE]
  /\ last' = Note("timer", "autoHide", {"handleClose"}, {"onClose"})
  /\ OnlyAlert

\* Unmount: the cleanup clears the timer.
AlertUnmount ==
  /\ alert.mounted
  /\ alert' = AlertIdle
  /\ last' = Note("unmount", "Alert", {}, {})
  /\ OnlyAlert

AlertNext ==
  \/ AlertMount
  \/ AlertSetProps
  \/ AlertRerender
  \/ AlertClickClose
  \/ AlertTimerFires
  \/ AlertUnmount

(***************************************************************************)
(* Fade (src/src/components/Transitions/index.tsx, lines 68-114)           *)
(***************************************************************************)
MaxFired == 2

FadeTimeouts == {300, 500}

\* The identities of the onEntered/onExited functions the parent passes: an
\* inline arrow function is a new identity on every parent render.
FadeHandlers == {"h1", "h2"}

\* entered and fired are history: whether `in` has been true since the
\* mount, and the callbacks made since `in` last changed.
FadeIdle ==
  [mounted |-> FALSE, inProp |-> FALSE, isVisible |-> FALSE,
   pendingVisible |-> <<>>, timeout |-> 300, handlers |-> "h1",
   timeoutId |-> <<>>, entered |-> FALSE, fired |-> 0]

OnlyFade ==
  UNCHANGED <<tooltip, pagination, win, body, doc, popover, select, dialogs, autocomplete,
              snackbar, modal, popper, layout, clickAway, slider, drawer,
              alert>>

\* The effect body: in -> setIsVisible(true) and a timer for onEntered;
\* otherwise a timer for setIsVisible(false) and onExited.
FadeEffect(f) ==
  [f EXCEPT
     !.pendingVisible = IF f.inProp /\ ~f.isVisible THEN <<TRUE>> ELSE <<>>,
     !.timeoutId = IF f.inProp THEN <<"onEntered">> ELSE <<"onExited">>]

\* The queued setIsVisible is committed by the render.
FadeCommit(f) ==
  [f EXCEPT !.isVisible = IF f.pendingVisible = <<>> THEN @
                          ELSE f.pendingVisible[1],
            !.pendingVisible = <<>>]

\* First render: useState(inProp), then the effect.
FadeMount ==
  /\ ~fade.mounted
  /\ \E inProp \in BOOLEAN, timeout \in FadeTimeouts, h \in FadeHandlers :
       fade' = FadeEffect([FadeIdle EXCEPT !.mounted = TRUE,
                                           !.inProp = inProp,
                                           !.isVisible = inProp,
                                           !.timeout = timeout,
                                           !.handlers = h,
                                           !.entered = inProp])
  /\ last' = Note("mount", "Fade", {}, {})
  /\ OnlyFade

\* The parent renders with a changed dependency of the effect (in, timeout,
\* onEntered/onExited): the cleanup clears the timeout, the effect runs.
FadeSetProps ==
  /\ fade.mounted
  /\ \E inProp \in BOOLEAN, timeout \in FadeTimeouts, h \in FadeHandlers :
       /\ <<inProp, timeout, h>> # <<fade.inProp, fade.timeout, fade.handlers>>
       /\ fade' = FadeEffect([FadeCommit(fade) EXCEPT
                    !.inProp = inProp, !.timeout = timeout, !.handlers = h,
                    !.entered = @ \/ inProp,
                    !.fired = IF inProp = fade.inProp THEN @ ELSE 0])
       /\ last' = Note("render", Change(fade.inProp, inProp), {}, {})
  /\ OnlyFade

\* React re-renders after setIsVisible; no dependency changed.
FadeRerender ==
  /\ fade.mounted /\ fade.pendingVisible # <<>>
  /\ fade' = FadeCommit(fade)
  /\ last' = Note("render", "same", {}, {})
  /\ OnlyFade

\* The timeout expires: onEntered, or setIsVisible(false) and onExited.
FadeTimerFires ==
  /\ fade.mounted /\ fade.timeoutId # <<>>
  /\ fade.fired < MaxFired
  /\ fade' = [fade EXCEPT
       !.timeoutId = <<>>,
       !.pendingVisible = IF fade.timeoutId[1] = "onExited" /\ fade.isVisible
                          THEN <<FALSE>> ELSE @,
       !.fired = @ + 1]
  /\ last' = Note("timer", fade.timeoutId[1], {}, {fade.timeoutId[1]})
  /\ OnlyFade

\* Unmount: the cleanup clears the timeout.
FadeUnmount ==
  /\ fade.mounted
  /\ fade' = FadeIdle
  /\ last' = Note("unmount", "Fade", {}, {})
  /\ OnlyFade

FadeNext ==
  \/ FadeMount
  \/ FadeSetProps
  \/ FadeRerender
  \/ FadeTimerFires
  \/ FadeUnmount

(***************************************************************************)
(* Pagination (src/src/components/Dialog/index.tsx, lines 265-454)         *)
(***************************************************************************)
MaxPages == 8

MaxSiblings == 2

\* Array.from({ length }, (_, i) => first + i)
ArrayFrom(length, first) == [i \in 1..length |-> first + i - 1]

\* The useMemo body: the page numbers to display, -1 for an ellipsis.
PageNumbers(currentPage, totalPages, siblingCount) ==
  LET totalPageNumbers == siblingCount * 2 + 3
      leftSiblingIndex ==
        IF currentPage - siblingCount > 1 THEN currentPage - siblingCount
        ELSE 1
      rightSiblingIndex ==
        IF currentPage + siblingCount < totalPages
        THEN currentPage + siblingCount ELSE totalPages
      shouldShowLeftDots == leftSiblingIndex > 2
      shouldShowRightDots == rightSiblingIndex < totalPages - 1
      itemCount == 1 + 2 * siblingCount
  IN  IF totalPageNumbers >= totalPages THEN ArrayFrom(totalPages, 1)
      ELSE IF ~shouldShowLeftDots /\ shouldShowRightDots
      THEN ArrayFrom(itemCount, 1) \o <<-1, totalPages>>
      ELSE IF shouldShowLeftDots /\ ~shouldShowRightDots
      THEN <<1, -1>> \o ArrayFrom(itemCount, totalPages - itemCount + 1)
      ELSE IF shouldShowLeftDots /\ shouldShowRightDots
      THEN <<1, -1>>
           \o ArrayFrom(rightSiblingIndex - leftSiblingIndex + 1,
                        leftSiblingIndex)
           \o <<-1, totalPages>>
      ELSE <<>>

PaginationIdle ==
  [mounted |-> FALSE, currentPage |-> 1, totalPages |-> 1,
   siblingCount |-> 1, disabled |-> FALSE, showBoundaryButtons |-> TRUE,
   pageNumbers |-> <<>>, page |-> <<>>]

OnlyPagination ==
  UNCHANGED <<tooltip, win, body, doc, popover, select, dialogs, autocomplete,
              snackbar, modal, popper, layout, clickAway, slider, drawer,
              alert, fade>>

\* handlePageChange: the page passed to onPageChange, if it is called.
HandlePageChange(p, page) ==
  IF p.disabled \/ page = p.currentPage THEN <<>> ELSE <<page>>

\* The buttons of the rendered component that are not disabled, as pairs of
\* a label and the page their onClick passes to handlePageChange.
PaginationButtons(p) ==
  {b \in
     {<<"previous", p.currentPage - 1, p.currentPage = 1>>,
      <<"next", p.currentPage + 1, p.currentPage = p.totalPages>>}
     \cup (IF p.showBoundaryButtons /\ p.currentPage > p.siblingCount + 2
           THEN {<<"first", 1, FALSE>>} ELSE {})
     \cup (IF p.showBoundaryButtons
              /\ p.currentPage < p.totalPages - p.siblingCount - 1
           THEN {<<"last", p.totalPages, FALSE>>} ELSE {})
     \cup {<<"page", p.pageNumbers[i], FALSE>> :
             i \in {j \in 1..Len(p.pageNumbers) : p.pageNumbers[j] # -1}} :
     ~(p.disabled \/ b[3])}

\* The parent renders the component with its props.
PaginationRender ==
  /\ \E totalPages \in 1..MaxPages, siblingCount \in 0..MaxSiblings,
        disabled \in BOOLEAN, showBoundaryButtons \in BOOLEAN :
       \E currentPage \in 1..totalPages :
         pagination' =
           [mounted |-> TRUE, currentPage |-> currentPage,
            totalPages |-> totalPages, siblingCount |-> siblingCount,
            disabled |-> disabled,
            showBoundaryButtons |-> showBoundaryButtons,
            pageNumbers |-> PageNumbers(currentPage, totalPages, siblingCount),
            page |-> <<>>]
  /\ last' = Note("render", "Pagination", {}, {})
  /\ OnlyPagination

\* A click on a button of the rendered component.
PaginationClick ==
  /\ pagination.mounted
  /\ \E b \in PaginationButtons(pagination) :
       LET page == HandlePageChange(pagination, b[2])
       IN  /\ pagination' = [pagination EXCEPT !.page = page]
           /\ last' = Note("click", b[1], {"handlePageChange"},
                           IF page = <<>> THEN {} ELSE {"onPageChange"})
  /\ OnlyPagination

PaginationUnmount ==
  /\ pagination.mounted
  /\ pagination' = PaginationIdle
  /\ last' = Note("unmount", "Pagination", {}, {})
  /\ OnlyPagination

PaginationNext ==
  \/ PaginationRender
  \/ PaginationClick
  \/ PaginationUnmount

(***************************************************************************)
(* Tooltip (src/unnamed/part_000, lines 61-203)                            *)
(***************************************************************************)
TooltipDelays == {300, 500}

\* hovered and focused are the pointer and the focus being on the trigger;
\* timerRef is TRUE while the show timer is pending.
TooltipIdle ==
  [mounted |-> FALSE, disabled |-> FALSE, delay |-> 300,
   isVisible |-> FALSE, pendingVisible |-> <<>>, timerRef |-> FALSE,
   hovered |-> FALSE, focused |-> FALSE]

OnlyTooltip ==
  UNCHANGED <<win, body, doc, popover, select, dialogs, autocomplete,
              snackbar, modal, popper, layout, clickAway, slider, drawer,
              alert, fade, pagination>>

\* showTooltip: nothing when disabled, else the show timer is restarted.
ShowTooltip(t) ==
  IF t.disabled THEN t ELSE [t EXCEPT !.timerRef = TRUE]

\* hideTooltip: the show timer is cleared, setIsVisible(false).
HideTooltip(t) ==
  [t EXCEPT !.timerRef = FALSE,
            !.pendingVisible = IF t.isVisible THEN <<FALSE>> ELSE <<>>]

\* The queued setIsVisible is committed by the render.
TooltipCommit(t) ==
  [t EXCEPT !.isVisible = IF t.pendingVisible = <<>> THEN @
                          ELSE t.pendingVisible[1],
            !.pendingVisible = <<>>]

\* First render with the props disabled and delay.
TooltipMount ==
  /\ ~tooltip.mounted
  /\ \E disabled \in BOOLEAN, delay \in TooltipDelays :
       tooltip' = [TooltipIdle EXCEPT !.mounted = TRUE,
                                      !.disabled = disabled,
                                      !.delay = delay]
  /\ last' = Note("mount", "Tooltip", {}, {})
  /\ OnlyTooltip

\* The parent renders with a new disabled or delay: no effect depends on
\* them, the pending timer and isVisible are left alone.
TooltipSetProps ==
  /\ tooltip.mounted
  /\ \E disabled \in BOOLEAN, delay \in TooltipDelays :
       /\ <<disabled, delay>> # <<tooltip.disabled, tooltip.delay>>
       /\ tooltip' = [TooltipCommit(tooltip) EXCEPT !.disabled = disabled,
                                                    !.delay = delay]
  /\ last' = Note("render", Change(tooltip.isVisible, tooltip'.isVisible),
                  {}, {})
  /\ OnlyTooltip

\* React re-renders after setIsVisible.
TooltipRerender ==
  /\ tooltip.mounted /\ tooltip.pendingVisible # <<>>
  /\ tooltip' = TooltipCommit(tooltip)
  /\ last' = Note("render", Change(tooltip.isVisible, tooltip'.isVisible),
                  {}, {})
  /\ OnlyTooltip

\* onMouseEnter / onFocus of the trigger.
TooltipEnter(type) ==
  /\ tooltip.mounted
  /\ IF type = "mouseenter" THEN ~tooltip.hovered ELSE ~tooltip.focused
  /\ tooltip' = [ShowTooltip(tooltip) EXCEPT
       !.hovered = @ \/ type = "mouseenter",
       !.focused = @ \/ type = "focus"]
  /\ last' = Note(type, "trigger", {"showTooltip"}, {})
  /\ OnlyTooltip

\* onMouseLeave / onBlur of the trigger.
TooltipLeave(type) ==
  /\ tooltip.mounted
  /\ IF type = "mouseleave" THEN tooltip.hovered ELSE tooltip.focused
  /\ tooltip' = [HideTooltip(tooltip) EXCEPT
       !.hovered = @ /\ type # "mouseleave",
       !.focused = @ /\ type # "blur"]
  /\ last' = Note(type, "trigger", {"hideTooltip"}, {})
  /\ OnlyTooltip

\* The show timer expires: setIsVisible(true).
TooltipTimerFires ==
  /\ tooltip.mounted /\ tooltip.timerRef
  /\ tooltip' = [tooltip EXCEPT
       !.timerRef = FALSE,
       !.pendingVisible = IF tooltip.isVisible THEN <<>> ELSE <<TRUE>>]
  /\ last' = Note("timer", "show", {}, {})
  /\ OnlyTooltip

\* Unmount: the cleanup clears the timer.
TooltipUnmount ==
  /\ tooltip.mounted
  /\ tooltip' = TooltipIdle
  /\ last' = Note("unmount", "Tooltip", {}, {})
  /\ OnlyTooltip

TooltipNext ==
  \/ TooltipMount
  \/ TooltipSetProps
  \/ TooltipRerender
  \/ \E type \in {"mouseenter", "focus"} : TooltipEnter(type)
  \/ \E type \in {"mouseleave", "blur"} : TooltipLeave(type)
  \/ TooltipTimerFires
  \/ TooltipUnmount

(***************************************************************************)
(* Specifications                                                          *)
(***************************************************************************)
EnvInit ==
  /\ win = [innerWidth |-> 80, innerHeight |-> 60]
  /\ body = {}
  /\ doc = [activeElement |-> "button", button |-> TRUE]
  /\ layout = LayoutIdle
  /\ clickAway = ClickAwayIdle
  /\ tooltip = TooltipIdle
  /\ pagination = PaginationIdle
  /\ fade = FadeIdle
  /\ alert = AlertIdle
  /\ drawer = DrawerIdle
  /\ slider = SliderIdle
  /\ last = [op |-> "init", target |-> None, called |-> {}, emitted |-> {},
             n |-> 0]

\* No Snackbar, Modal or Popper on the page.
OthersIdle ==
  /\ snackbar = SnackbarIdle
  /\ modal = ModalIdle
  /\ popper = PopperIdle

Init ==
  /\ EnvInit
  /\ PopoverInit
  /\ select = SelectIdle
  /\ dialogs = [d \in Dialogs |-> DialogIdle]
  /\ autocomplete = AutocompleteIdle
  /\ OthersIdle

Next == PopoverNext

\* One Popover on the page.
Spec == Init /\ [][Next]_vars

InitDialogs ==
  /\ EnvInit
  /\ popover = PopoverIdle
  /\ select = SelectIdle
  /\ dialogs = [d \in Dialogs |-> DialogIdle]
  /\ autocomplete = AutocompleteIdle
  /\ OthersIdle

NextDialogs == DialogNextOf(Dialogs)

\* Two Dialog instances on one page.
SpecDialogs == InitDialogs /\ [][NextDialogs]_vars

InitListeners ==
  /\ EnvInit
  /\ dialogs = [d \in Dialogs |-> DialogIdle]
  /\ autocomplete = AutocompleteIdle
  /\ OthersIdle
  /\ \/ PopoverInit /\ select = SelectIdle
     \/ popover = PopoverIdle /\ SelectInit
     \/ popover = PopoverIdle /\ select = SelectIdle

NextListeners ==
  \/ PopoverNext
  \/ SelectNext
  \/ /\ ~popover.mounted /\ ~select.mounted /\ ~modal.inTree
     /\ DialogNextOf({"d1"})
  \/ /\ ~popover.mounted /\ ~select.mounted /\ ~dialogs["d1"].mounted
     /\ ModalNext

\* One overlay on the page at a time: a Popover, a Select, a Dialog or a
\* Modal.
SpecListeners == InitListeners /\ [][NextListeners]_vars

InitAutocomplete ==
  /\ EnvInit
  /\ popover = PopoverIdle
  /\ select = SelectIdle
  /\ dialogs = [d \in Dialogs |-> DialogIdle]
  /\ AutocompleteInit
  /\ OthersIdle

\* One Autocomplete on the page.
SpecAutocomplete == InitAutocomplete /\ [][AutocompleteNext]_vars

InitSnackbar ==
  /\ EnvInit
  /\ popover = PopoverIdle
  /\ select = SelectIdle
  /\ dialogs = [d \in Dialogs |-> DialogIdle]
  /\ autocomplete = AutocompleteIdle
  /\ SnackbarInit
  /\ modal = ModalIdle
  /\ popper = PopperIdle

\* One Snackbar on the page.
SpecSnackbar == InitSnackbar /\ [][SnackbarNext]_vars

InitPopper ==
  /\ EnvInit
  /\ popover = PopoverIdle
  /\ select = SelectIdle
  /\ dialogs = [d \in Dialogs |-> DialogIdle]
  /\ autocomplete = AutocompleteIdle
  /\ snackbar = SnackbarIdle
  /\ modal = ModalIdle
  /\ PopperInit

\* One Popper on the page.
SpecPopper == InitPopper /\ [][PopperNext]_vars

InitLayout ==
  /\ win = LayoutWindow
  /\ body = {}
  /\ doc = [activeElement |-> "body", button |-> FALSE]
  /\ last = [op |-> "init", target |-> None, called |-> {}, emitted |-> {},
             n |-> 0]
  /\ popover = PopoverIdle /\ select = SelectIdle
  /\ dialogs = [d \in Dialogs |-> DialogIdle]
  /\ autocomplete = AutocompleteIdle
  /\ OthersIdle
  /\ clickAway = ClickAwayIdle
  /\ tooltip = TooltipIdle
  /\ pagination = PaginationIdle
  /\ fade = FadeIdle
  /\ alert = AlertIdle
  /\ drawer = DrawerIdle
  /\ slider = SliderIdle
  /\ \E a \in LayoutAnchors, c \in LayoutContents, p \in LayoutPlacements :
       layout = [LayoutIdle EXCEPT !.anchor = a, !.content = c,
                                   !.placement = p]

\* One position computation for every anchor, content and placement.
SpecLayout == InitLayout /\ [][LayoutNext]_vars

NextModal ==
  \/ ModalNext
  \/ \E el \in {"button", "body"} : DocFocus(el)
  \/ DocDetachButton

InitModal ==
  /\ InitListeners
  /\ popover = PopoverIdle /\ select = SelectIdle

\* One Modal on a page whose opener button has the focus.
SpecModal == InitModal /\ [][NextModal]_vars

\* One ClickAwayListener on the page.
SpecClickAway == InitModal /\ [][ClickAwayNext]_vars

\* One Slider on the page.
SpecSlider == InitModal /\ [][SliderNext]_vars

\* One Drawer on the page.
SpecDrawer == InitModal /\ [][DrawerNext]_vars

\* One Alert on the page.
SpecAlert == InitModal /\ [][AlertNext]_vars

\* One Fade on the page.
SpecFade == InitModal /\ [][FadeNext]_vars

\* One Pagination on the page.
SpecPagination == InitModal /\ [][PaginationNext]_vars

\* One Tooltip on the page.
SpecTooltip == InitModal /\ [][TooltipNext]_vars

(***************************************************************************)
(* Claims                                                                  *)
(***************************************************************************)

\* C1 (as claimed): closing is idempotent.  When two consecutive steps both
\* invoke Popover.handleClose, the second one emits no onClose.
C1_SecondCloseIsSilent ==
  [][("handleClose" \in last.called /\ "handleClose" \in last'.called)
       => last'.emitted = {}]_vars

\* C3 (as claimed): once the Autocomplete dropdown has been closed, isOpen
\* is set to true again only after the user has typed or the input has taken
\* the focus; no timer callback opens it on its own.
C3_ClosedStaysClosed ==
  [][(~autocomplete.next.isOpen /\ autocomplete'.next.isOpen)
       => autocomplete'.requested]_vars

\* C5 (as claimed): every mousedown outside the input and the dropdown of an
\* open Autocomplete closes it, also when no option matches and the dropdown
\* element is not rendered.
C5_OutsideMouseDownCloses ==
  [][(/\ autocomplete.mounted /\ autocomplete.cur.isOpen
      /\ last'.op = "mousedown" /\ last'.target = "outside")
       => ~autocomplete'.next.isOpen]_vars

\* C4 (as claimed): a Snackbar that is closing (the auto-hide timer has
\* fired, isVisible = false is committed and the onClose of the exit is still
\* pending) does not go back to Open; it reaches Closed first.
C4_ClosingNeverReopens ==
  [][(/\ snackbar.phase = "Closing" /\ ~snackbar.isVisible
      /\ snackbar.closeTimers > 0)
       => snackbar'.phase # "Open"]_vars

\* C6: on an open Popover an Escape keydown invokes handleClose (and emits
\* onClose) exactly when closeOnEsc is set; with closeOnEsc = false no keydown,
\* and with closeOnClickOutside = false no mousedown, changes the Popover or
\* emits anything.  On an open Modal an Escape keydown emits onClose exactly
\* when closeOnEsc is set; on an open Dialog it always does.
C6_EscapeAndConfig ==
  [][/\ (/\ popover.mounted /\ PopoverIsOpen(popover)
          /\ last'.op = "keydown" /\ last'.target = "Escape")
         => /\ "handleClose" \in last'.called <=> popover.closeOnEsc
            /\ "onClose" \in last'.emitted <=> popover.closeOnEsc
     /\ (popover.mounted /\ last'.op = "keydown" /\ ~popover.closeOnEsc)
         => popover' = popover /\ last'.emitted = {}
     /\ (/\ popover.mounted /\ last'.op = "mousedown"
          /\ ~popover.closeOnClickOutside)
         => popover' = popover /\ last'.emitted = {}
     /\ (/\ modal.inTree /\ modal.isOpen
          /\ last'.op = "keydown" /\ last'.target = "Escape")
         => "onClose" \in last'.emitted <=> modal.closeOnEsc
     /\ \A d \in Dialogs :
          (/\ dialogs[d].mounted /\ dialogs[d].isOpen
           /\ last'.op = "keydown" /\ last'.target = "Escape")
            => d \in last'.emitted]_vars

\* C6 witness: Escape has just been pressed on an open Popover with
\* closeOnEsc = false, and nothing was closed.
C6_EscapeIgnored ==
  /\ last.op = "keydown" /\ last.target = "Escape"
  /\ popover.mounted /\ PopoverIsOpen(popover) /\ ~popover.closeOnEsc
  /\ popover.pendingIsOpen = <<>> /\ last.emitted = {}

\* C10 (as claimed): a reposition of an open Popper whose reference element
\* is detached computes no placement and requests the close.
C10_DetachedReferenceCloses ==
  [][(/\ popper.mounted /\ popper.isOpen /\ ~popper.attached
      /\ "updatePosition" \in last'.called)
       => /\ popper'.pendingStyles = popper.pendingStyles
          /\ last'.emitted # {}]_vars

\* C7 (as claimed): the body scroll lock of an open Dialog stays in place
\* while that Dialog is open, whatever the other Dialog instances do.
C7_OpenDialogKeepsBodyLock ==
  \A d \in Dialogs :
    (dialogs[d].mounted /\ dialogs[d].isOpen /\ dialogs[d].disableBodyScroll)
      => BodyLock \in body

\* C8 (as claimed): a click on the trigger of a Popover that is open, or that
\* has its opening queued and is not re-rendered yet, emits no onOpen.
C8_NoSecondOnOpen ==
  [][(/\ last'.op = "click" /\ last'.target = "trigger"
      /\ PopoverIsOpen(popover) \/ popover.pendingIsOpen = <<TRUE>>)
       => "onOpen" \notin last'.emitted]_vars

\* C9 (as claimed): each window scroll that moves the trigger of an open
\* Popover with closeOnScroll off repositions the content: afterwards its
\* style is the placement computed from the trigger's new box.
C9_ScrollRepositions ==
  [][(/\ last'.op = "scroll"
      /\ popover.mounted /\ PopoverIsOpen(popover) /\ popover.contentRef
      /\ ~popover.closeOnScroll)
       => popover'.style =
            <<PopoverComputed(popover'.position, popover'.triggerRect,
                              ContentRect, PopoverOffset, win')>>]_vars

ClosedListenersAreInert ==
  /\ (select.mounted /\ ~select.isOpen /\ select.pending = "id"
        /\ last'.op = "click" /\ last'.target = "outside")
       => select'.pending \in {"id", "false"}
  /\ \A d \in Dialogs :
       (dialogs[d].mounted /\ ~dialogs[d].isOpen /\ last'.op = "keydown")
         => d \notin last'.emitted

C11_CloseCancelsReposition ==
  [][(/\ popover.mounted /\ popover.pendingIsOpen = <<FALSE>>
      /\ "handleClose" \in last.called /\ last'.op = "resize")
       => popover'.style = popover.style]_vars

\* C12 (as claimed): a closed overlay holds no focus snapshot: the snapshot
\* taken when the Modal opened has been released once it is closed again.
C12_ClosedHoldsNoSnapshot ==
  ~modal.isOpen => modal.previousActiveElement = <<>>

C14_BottomOverflowFlips ==
  (/\ layout.by \in {"Popover", "PopperPreventOverflow"}
   /\ layout.placement \in {"bottom", "bottom-start", "bottom-end"}
   /\ bottom(layout.anchor) + 8 + layout.content.height > win.innerHeight - 8)
    => layout.pos[1].top = layout.anchor.top - layout.content.height - 8

\* The rule of the specification for a placement with no collision: the
\* content flush against the anchor on the side of the placement, pushed
\* outward by main; on the other axis aligned start / center / end with the
\* anchor and shifted by cross.
Unclamped(placement, a, c, main, cross) ==
  LET side == CASE placement \in {"top", "top-start", "top-end"} -> "top"
                [] placement \in {"bottom", "bottom-start", "bottom-end"} ->
                     "bottom"
                [] placement \in {"left", "left-start", "left-end"} -> "left"
                [] OTHER -> "right"
      vertical == side \in {"top", "bottom"}
      mainAxis == CASE side = "top" -> a.top - c.height - main
                    [] side = "bottom" -> bottom(a) + main
                    [] side = "left" -> a.left - c.width - main
                    [] OTHER -> right(a) + main
      from == IF vertical THEN a.left ELSE a.top
      asize == IF vertical THEN a.width ELSE a.height
      csize == IF vertical THEN c.width ELSE c.height
      crossAxis ==
        (CASE placement \in {"top-start", "bottom-start", "left-start",
                             "right-start"} -> from
           [] placement \in {"top-end", "bottom-end", "left-end",
                             "right-end"} -> from + asize - csize
           [] OTHER -> from + (asize \div 2) - (csize \div 2)) + cross
  IN  IF vertical THEN [top |-> mainAxis, left |-> crossAxis]
      ELSE [top |-> crossAxis, left |-> mainAxis]

\* The box of size c at pos keeps the distance margin from every edge of the
\* window w.
Within(pos, c, w, margin) ==
  /\ margin <= pos.left /\ pos.left + c.width <= w.innerWidth - margin
  /\ margin <= pos.top /\ pos.top + c.height <= w.innerHeight - margin

C16_CrossAxisClamp ==
  LET p == layout.placement
      a == layout.anchor
      c == layout.content
      vertical == p \in {"top", "top-start", "top-end",
                         "bottom", "bottom-start", "bottom-end"}
      padding == IF layout.by = "Popover" THEN 10 ELSE 8
      e == IF layout.by = "Popover" THEN Unclamped(p, a, c, PopoverOffset, 0)
           ELSE Unclamped(p, a, c,
                          IF vertical THEN PopperOffsetY ELSE PopperOffsetX,
                          IF vertical THEN PopperOffsetX ELSE PopperOffsetY)
      least(x, size, limit) ==
        IF x < padding THEN padding
        ELSE IF x + size > limit - padding THEN limit - padding - size ELSE x
      fits == /\ c.width <= win.innerWidth - 2 * padding
              /\ c.height <= win.innerHeight - 2 * padding
      mainInside ==
        IF vertical
        THEN /\ padding <= e.top
             /\ e.top + c.height <= win.innerHeight - padding
        ELSE /\ padding <= e.left
             /\ e.left + c.width <= win.innerWidth - padding
  IN  (/\ layout.by \in {"Popover", "PopperPreventOverflow"}
       /\ p \in PopoverPositions /\ fits /\ mainInside)
        => layout.pos =
             IF vertical
             THEN <<[top |-> e.top,
                     left |-> least(e.left, c.width, win.innerWidth)]>>
             ELSE <<[top |-> least(e.top, c.height, win.innerHeight),
                     left |-> e.left]>>

\* C17 (as claimed): whenever the content fits between the padded edges of
\* the window (padding 8), the position computed by a component that adjusts
\* to the window keeps the whole content box between them.
C17_Containment ==
  (/\ layout.by \in {"Popover", "PopperPreventOverflow", "Menu"}
   /\ layout.placement \in PopoverPositions
   /\ layout.content.width <= win.innerWidth - 16
   /\ layout.content.height <= win.innerHeight - 16)
    => Within(layout.pos[1], layout.content, win, 8)

\* C18 (as claimed): content wider than the window gets a negative-biased
\* left coordinate: its far edge is kept at the window's right edge less the
\* padding (10 for the Popover, 8 for the Popper), the near edge overflows.
C18_NegativeBiased ==
  (/\ layout.by \in {"Popover", "PopperPreventOverflow"}
   /\ layout.placement \in PopoverPositions
   /\ layout.content.width > win.innerWidth)
    => layout.pos[1].left + layout.content.width =
         win.innerWidth - (IF layout.by = "Popover" THEN 10 ELSE 8)

\* C18 (amended): content wider than the window raises no error and gets a
\* position.  The Popper with preventOverflow keeps its near edge at 8 and
\* lets the far edge overflow.  The Popover keeps the near edge at 10 when
\* the unclamped left coordinate is below 10, and otherwise keeps the far
\* edge at the window's right edge less 10, the near edge overflowing.
C18_OversizedContent ==
  (/\ layout.by \in {"Popover", "PopperPreventOverflow"}
   /\ layout.placement \in PopoverPositions
   /\ layout.content.width > win.innerWidth)
    => LET e == Unclamped(layout.placement, layout.anchor, layout.content,
                          PopoverOffset, 0)
       IN  /\ layout.pos # <<>>
           /\ layout.by = "PopperPreventOverflow" => layout.pos[1].left = 8
           /\ layout.by = "Popover" =>
                layout.pos[1].left =
                  IF e.left < 10 THEN 10
                  ELSE win.innerWidth - layout.content.width - 10

\* The Popper with preventOverflow has placed content wider than the window.
C18_OversizedPlaced ==
  /\ layout.by = "PopperPreventOverflow"
  /\ layout.placement \in PopoverPositions
  /\ layout.content.width > win.innerWidth
  /\ layout.pos[1].left = 8

\* C19 (as claimed): a placement that is none of the twelve is rejected: no
\* component computes a position for it.
C19_UnknownPlacementRejected ==
  (layout.by # None /\ layout.placement \notin PopoverPositions)
    => layout.pos = <<>>

\* C20 (as claimed): one mousedown outside the children calls onClickAway
\* exactly once while the listener is mounted and enabled, and not at all
\* while it is disabled or unmounted.
C20_OutsideEventOnce ==
  (last.op = "mousedown" /\ last.target = "outside")
    => clickAway.calls =
         IF clickAway.mounted /\ ~clickAway.disabled THEN 1 ELSE 0

\* C21 (as claimed): a click on the track of an enabled range slider
\* commits: onChange is notified with a pair and that pair is queued as the
\* new internal value.
C21_RangeTrackClickCommits ==
  [][(/\ slider.mounted /\ ~slider.disabled
      /\ slider.range /\ Len(slider.internalValue) = 2
      /\ last'.op = "click" /\ last'.target = "track")
       => /\ "onChange" \in last'.emitted
          /\ slider'.pending.internalValue # <<>>
          /\ slider'.pending.internalValue[1] = slider'.notified[1]]_vars

\* C30: in range mode the rendered value, the queued value and the last
\* pair passed to onChange all satisfy min <= low <= high <= max, whatever
\* thumbs were dragged and wherever the pointer went; after a mouseup no
\* drag listener is left on the document.
C30_RangeStaysOrdered ==
  LET ordered(v) == /\ Len(v) = 2
                    /\ SliderMin <= v[1] /\ v[1] <= v[2] /\ v[2] <= SliderMax
  IN  /\ (slider.mounted /\ slider.range) =>
            /\ ordered(slider.internalValue)
            /\ slider.pending.internalValue # <<>> =>
                 ordered(slider.pending.internalValue[1])
            /\ slider.notified # <<>> => ordered(slider.notified[1])
      /\ last.op = "mouseup" => slider.drags = <<>>

\* The max thumb has been dragged to the far left of the min thumb, past the
\* start of the track, while the min thumb was not at the minimum.
C30_DraggedPastOtherThumb ==
  /\ slider.mounted /\ slider.range
  /\ last.op = "mousemove"
  /\ slider.notified = <<(<<13, 13>>)>>

\* C22: an outside mousedown or an Escape key-down invokes onClose exactly
\* when the Drawer is temporary and open; a persistent Drawer invokes
\* onClose only through its close button; a permanent Drawer never does,
\* and the panel of every mounted Drawer is rendered whatever open is.
C22_DrawerVariants ==
  [][/\ drawer'.mounted => drawer'.style # <<>>
     /\ last'.op \in {"mousedown", "keydown"} =>
          ("onClose" \in last'.emitted
             <=> /\ drawer.variant = "temporary" /\ drawer.open
                 /\ last'.target \in {"outside", "Escape"})
     /\ ("onClose" \in last'.emitted /\ drawer.variant = "persistent") =>
          (last'.op = "click" /\ last'.target = "closeButton")
     /\ drawer.variant = "permanent" => "onClose" \notin last'.emitted]_vars

\* An open persistent Drawer has received an Escape key-down and has not
\* asked to be closed.
C22_PersistentIgnoresEscape ==
  /\ drawer.mounted /\ drawer.variant = "persistent" /\ drawer.open
  /\ last.op = "keydown" /\ last.target = "Escape" /\ last.emitted = {}

\* C23 (as claimed): the position effect does not re-trigger itself: a
\* re-render of an open Popper that changed no prop, nor the popper element,
\* nor its styles queues no further state update, so the Popper is then
\* idle.
C23_PositionEffectSettles ==
  [][(/\ popper.mounted /\ popper.isOpen /\ popper.popperElement
      /\ last'.op = "render" /\ last'.target = "same"
      /\ popper'.popperStyles = popper.popperStyles
      /\ popper'.popperElement = popper.popperElement
      /\ popper'.isOpen /\ popper'.placement = popper.placement
      /\ popper'.referenceElement = popper.referenceElement)
       => /\ popper'.pendingStyles = <<>>
          /\ popper'.pendingElement = <<>>]_vars

\* C24 (as claimed): an auto-hide timer belongs to one open cycle: the
\* onClose it leads to is never invoked after the cycle has ended, that is
\* while the open prop is false or the Snackbar is unmounted.
C24_AutoHideWithinItsCycle ==
  [][(last'.op = "timer" /\ last'.target = "onClose")
       => (snackbar.mounted /\ snackbar.open)]_vars

\* C25 (as claimed): whatever the order of clicks on the dismiss button and
\* the auto-hide timer, one Alert instance invokes onClose at most once: an
\* onClose call made after React has rendered every queued update is the
\* first call of the instance.
C25_AlertClosesOnce ==
  [][("onClose" \in last'.emitted /\ alert.pendingVisible = <<>>)
       => alert.closes = 0]_vars

\* C26 (as claimed): a transition callback answers one change of `in`: the
\* timeout invokes no second callback while `in` has not changed again, and
\* it invokes onExited only if `in` has been true since the mount.
C26_CallbackAnswersChange ==
  [][(last'.op = "timer" /\ fade.mounted)
       => /\ fade.fired = 0
          /\ (last'.target = "onExited" => fade.entered)]_vars

\* C27 (as claimed): in multiple mode a click on an option of the rendered
\* dropdown, made when React has rendered every earlier update, leaves
\* selectedOptions without two options of the same id.
C27_NoDuplicateSelection ==
  [][(/\ last'.op = "click" /\ last'.target = "option"
      /\ autocomplete.multiple /\ autocomplete.batch = 0)
       => LET s == autocomplete'.next.selectedOptions
          IN  \A i, j \in 1..Len(s) : s[i].id = s[j].id => i = j]_vars

\* C28 (as claimed): the computed page list contains page 1, totalPages and
\* currentPage, its page numbers are strictly increasing, and an ellipsis
\* stands only between two pages that are not consecutive.
C28_PageRange ==
  pagination.mounted =>
    LET s == pagination.pageNumbers
        pages == {s[i] : i \in 1..Len(s)} \ {-1}
    IN  /\ {1, pagination.totalPages, pagination.currentPage} \subseteq pages
        /\ \A i, j \in 1..Len(s) :
             (i < j /\ s[i] # -1 /\ s[j] # -1) => s[i] < s[j]
        /\ \A i \in 1..Len(s) :
             s[i] = -1 => /\ 1 < i /\ i < Len(s)
                          /\ s[i - 1] # -1 /\ s[i + 1] # -1
                          /\ s[i + 1] > s[i - 1] + 1

\* C29 (as claimed): a disabled Tooltip is never shown: whenever disabled is
\* true the tooltip element is not rendered.
C29_DisabledNeverShown ==
  (tooltip.mounted /\ tooltip.disabled) => ~tooltip.isVisible

====
